---- MODULE Spec2Model ----
(***************************************************************************)
(* Model of the function playground: the session store, the sandbox        *)
(* lifecycle adapter, the streaming run/build/deploy requests, the         *)
(* deployment store and the background poll loop that reconciles a stored  *)
(* Deployment with the remote backend.                                     *)
(***************************************************************************)
EXTENDS Integers, Sequences, FiniteSets, TLC

VARIABLES
  store,      \* redis: deployment:<userId>:<id> -> Deployment record (or NoRec)
  idsSet,     \* redis: deployments:<userId>:ids -> set of ids
  poll,       \* per deployment id: the pollDeploymentStatus invocation
  del,        \* the DELETE /api/deployments/[id] request in flight
  req,        \* the streaming request (run, build or deploy) in flight
  env,        \* what the remote backends and the callers may answer and send
  termOf,     \* history: per store key, the first terminal status it held
  now,        \* Date.now(), in minutes
  session,    \* globalForSession.currentSession
  activeSandbox, \* the adapter's stored handle (a sandbox id, 0 = null)
  live,       \* backend: ids of the sandboxes that are running
  created,    \* backend: number of sandboxes created so far
  snapshots,  \* backend: ids of the snapshots taken
  op,         \* the session operation (start, restore, snapshot, stop) in flight
  sdkInstalledSandboxes, \* ids of the sandboxes ensureSdk has written the SDK to
  toolchain,  \* sandboxes that have Bun installed, and the calls of installBun
              \* and ensureSdk made on one sandbox, each with its outcome
  parked      \* a second session operation in flight, waiting at an await
              \* while the operation `op` takes its steps

sessVars == <<now, session, activeSandbox, live, created, snapshots, op,
              sdkInstalledSandboxes, toolchain, parked>>

vars == <<store, idsSet, poll, del, req, env, termOf,
          now, session, activeSandbox, live, created, snapshots, op,
          sdkInstalledSandboxes, toolchain, parked>>

----------------------------------------------------------------------------
(* Bounds and program constants *)

\* src/app/api/deploy/route.ts:148
maxAttempts == 60

\* number of sandboxes the backend creates in one behaviour
MaxSandboxes == 2

\* the last minute the clock reaches
MaxTime == 6

\* 5 * 60 * 1000 ms, in minutes: src/apps/web/app/api/session/route.ts:25
DefaultTimeout == 5

\* 2 * 60 * 1000 ms, in minutes: src/apps/web/app/api/session/route.ts:119
Grace == 2

\* lines a detached command writes to its log feed
MaxLogs == 2

\* files of the build output: src/lib/vercel-deploy.ts 163-185
NumFiles == 3
MaxCalls == 2

Users == {"ipA", "ipB"}
DeployIds == {"dpl_1", "dpl_2"}
Urls == {"https://a.vercel.app", "https://b.vercel.app"}
\* "handler" is the default of the deploy route when the body names none
FunctionNames == {"handler", "hello"}

\* readyState values the backend can answer; INITIALIZING stands for any
\* state the code does not name
ReadyStates == {"QUEUED", "BUILDING", "READY", "ERROR", "CANCELED", "INITIALIZING"}

Statuses == {"building", "queued", "ready", "error", "canceled"}
TerminalStatuses == {"ready", "error", "canceled"}

\* a regions value: undefined, the empty list, or a non-empty list
RegionValues == {"undefined", "empty", "iad1", "sfo1"}
MessageValues == {"undefined", "build failed"}

NoRec == [id |-> "", url |-> "", functionName |-> "", status |-> "absent",
          regions |-> "undefined", errorMessage |-> "undefined"]

\* DeploymentResponse of createDeployment / getDeploymentStatus
Responses == [readyState : ReadyStates, url : Urls,
              regions : RegionValues, errorMessage : MessageValues]

NoResp == [readyState |-> "", url |-> "", regions |-> "undefined",
           errorMessage |-> "undefined"]


----------------------------------------------------------------------------
(* Deployment store: src/lib/vercel-deploy.ts 455-520 *)

\* a string seen as the list of its pieces between ":" characters
Segments(s) ==
  CASE s = "fe80:1"  -> <<"fe80", "1">>
    [] s = "1:dpl_1" -> <<"1", "dpl_1">>
    [] OTHER         -> <<s>>

\* `deployment:${userId}:${id}`: the pieces of the key between ":" characters
deploymentKey(userId, id) == <<"deployment">> \o Segments(userId) \o Segments(id)

\* `deployments:${userId}:ids`
deploymentIdsKey(userId) == <<"deployments">> \o Segments(userId) \o <<"ids">>

\* the strings getUserId can return and an id segment of a request URL can be
Callers == Users \cup {"fe80", "fe80:1"}
RequestIds == DeployIds \cup {"1:dpl_1"}

StoreKeys == {deploymentKey(u, i) : u \in Callers, i \in RequestIds}
IdsKeys == {deploymentIdsKey(u) : u \in Callers}

getDeployment(userId, id) == store[deploymentKey(userId, id)]

\* Merge with the spread operands swapped: { ...updates, ...existing }
Merge_ExistingWins(existing, updates) == existing

\* the record { ...existing, ...updates }: a field of updates that is present
\* replaces the field of existing
Merge(existing, updates) ==
  [f \in DOMAIN existing |->
     IF f \in DOMAIN updates THEN updates[f] ELSE existing[f]]

\* history kept beside a SET of `record` under `key`
NoteTerminal(key, record) ==
  termOf' = [termOf EXCEPT ![key] =
               IF @ = "" /\ record.status \in TerminalStatuses
                 THEN record.status ELSE @]

\* addDeployment without its SET of the record
addDeployment_IdsOnly(userId, deployment) ==
  /\ idsSet' = [idsSet EXCEPT ![deploymentIdsKey(userId)] = @ \cup {deployment.id}]
  /\ UNCHANGED <<store, termOf>>

\* addDeployment: pipeline of SET record and SADD id
addDeployment(userId, deployment) ==
  /\ store' = [store EXCEPT ![deploymentKey(userId, deployment.id)] = deployment]
  /\ idsSet' = [idsSet EXCEPT ![deploymentIdsKey(userId)] = @ \cup {deployment.id}]
  /\ NoteTerminal(deploymentKey(userId, deployment.id), deployment)

\* the write half of updateDeployment, `existing` having been read before
updateDeploymentSet(userId, id, existing, updates) ==
  /\ store' = [store EXCEPT ![deploymentKey(userId, id)] = Merge(existing, updates)]
  /\ UNCHANGED idsSet
  /\ NoteTerminal(deploymentKey(userId, id), Merge(existing, updates))

\* deleteDeployment: pipeline of DEL record and SREM id
deleteDeployment(userId, id) ==
  /\ store' = [store EXCEPT ![deploymentKey(userId, id)] = NoRec]
  /\ idsSet' = [idsSet EXCEPT ![deploymentIdsKey(userId)] = @ \ {id}]
  /\ UNCHANGED termOf

\* getAllDeployments: GET of the key of every member of the ids set, nulls
\* filtered out (the result taken as a set, its sort order left out)
getAllDeployments(userId) ==
  {getDeployment(userId, id) : id \in idsSet[deploymentIdsKey(userId)]} \ {NoRec}

\* clearDeployments: pipeline of DEL of the key of every member of the ids
\* set and DEL of the ids set
clearDeployments(userId) ==
  /\ store' = [k \in DOMAIN store |->
                 IF \E id \in idsSet[deploymentIdsKey(userId)] :
                      k = deploymentKey(userId, id)
                   THEN NoRec ELSE store[k]]
  /\ idsSet' = [idsSet EXCEPT ![deploymentIdsKey(userId)] = {}]
  /\ UNCHANGED termOf

----------------------------------------------------------------------------
(* Status mapping: src/app/api/deploy/route.ts 89-91 and 158-161 *)

\* the status a new record is persisted with
InitialStatus(readyState) ==
  IF readyState = "READY" THEN "ready"
  ELSE IF readyState = "ERROR" THEN "error"
  ELSE IF readyState = "QUEUED" THEN "queued"
  ELSE "building"

\* the status the poll loop writes
PollStatus(readyState) ==
  IF readyState = "READY" THEN "ready"
  ELSE IF readyState = "ERROR" THEN "error"
  ELSE IF readyState = "CANCELED" THEN "canceled"
  ELSE IF readyState = "QUEUED" THEN "queued"
  ELSE "building"

IsTerminal(status) == status \in TerminalStatuses

\* PollUpdates without the test of line 169: regions always written
PollUpdates_AlwaysRegions(resp) ==
  [status |-> PollStatus(resp.readyState), url |-> resp.url,
   errorMessage |-> resp.errorMessage, regions |-> resp.regions]

\* the updates object of one poll iteration: regions only when the backend
\* supplies a non-empty list
PollUpdates(resp) ==
  LET base == [status |-> PollStatus(resp.readyState),
               url |-> resp.url,
               errorMessage |-> resp.errorMessage]
  IN IF resp.regions \notin {"undefined", "empty"}
       THEN [f \in {"status", "url", "errorMessage", "regions"} |->
               IF f = "regions" THEN resp.regions ELSE base[f]]
       ELSE base

----------------------------------------------------------------------------
(* Session store: src/unnamed/part_010 *)

NoSession == [sandboxId |-> 0, status |-> "none", timeout |-> 0, snapshotId |-> 0,
              origin |-> "none"]

getSession == session

\* updateSession: merges into the stored session, a no-op when there is none
updateSession(cur, updates) ==
  IF cur # NoSession
    THEN [f \in DOMAIN cur |-> IF f \in DOMAIN updates THEN updates[f] ELSE cur[f]]
    ELSE cur

----------------------------------------------------------------------------
(* Sandbox lifecycle adapter: src/apps/web/lib/sandbox.ts 119-172, 276-284 *)

SandboxIds == 1..MaxSandboxes

\* ReconnectOutcomes without the test of line 149: Sandbox.get on every call
ReconnectOutcomes_AlwaysAttach(id) ==
  {[ok |-> TRUE, handle |-> id]} \cup
  (IF env.faults THEN {[ok |-> FALSE, handle |-> activeSandbox]} ELSE {})

\* getOrReconnectSandbox(id): the stored handle when it matches, else
\* Sandbox.get, which attaches (the handle is replaced) or throws
ReconnectOutcomes(id) ==
  IF activeSandbox = id
    THEN {[ok |-> TRUE, handle |-> id]}
    ELSE {[ok |-> TRUE, handle |-> id]} \cup
         (IF env.faults THEN {[ok |-> FALSE, handle |-> activeSandbox]} ELSE {})

\* handle.stop(): the backend stops the sandbox, or the call throws (always
\* possible for a sandbox the backend no longer runs)
StopOutcomes(id) ==
  {[ok |-> TRUE, live |-> live \ {id}]} \cup
  (IF env.faults \/ id \notin live THEN {[ok |-> FALSE, live |-> live]} ELSE {})

\* no sandbox has Bun, no call of installBun or ensureSdk is on record
NoToolchain == [bun |-> {}, id |-> 0, installBun |-> <<>>, ensureSdk |-> <<>>]

\* `stopped` records the sandboxes the operation's own stop calls have stopped
IdleOp == [kind |-> "none", pc |-> "idle", sandboxId |-> 0, snapshotId |-> 0,
           result |-> "", stopped |-> {}]

Answer(kind, result) == [IdleOp EXCEPT !.kind = kind, !.result = result]

----------------------------------------------------------------------------
(* POST /api/session (start): src/apps/web/app/api/session/route.ts 7-41 *)

\* StartBegin without lines 10-17: createSandbox is called at once
StartBegin_NoStop ==
  /\ op.pc = "idle"
  /\ op' = [IdleOp EXCEPT !.kind = "start", !.pc = "c_stop"]
  /\ UNCHANGED <<now, session, activeSandbox, live, created, snapshots, sdkInstalledSandboxes, toolchain, parked>>

StartBegin ==
  /\ op.pc = "idle"
  /\ op' = IF getSession.sandboxId # 0
             THEN [IdleOp EXCEPT !.kind = "start", !.pc = "s_get",
                                 !.sandboxId = getSession.sandboxId]
             ELSE [IdleOp EXCEPT !.kind = "start", !.pc = "c_stop"]
  /\ UNCHANGED <<now, session, activeSandbox, live, created, snapshots, sdkInstalledSandboxes, toolchain, parked>>

\* stopSandbox(existing.sandboxId), reconnect half; a throw is ignored
StartStopGet ==
  /\ op.pc = "s_get"
  /\ \E r \in ReconnectOutcomes(op.sandboxId) :
       /\ activeSandbox' = r.handle
       /\ op' = [op EXCEPT !.pc = IF r.ok THEN "s_stop" ELSE "c_stop"]
  /\ UNCHANGED <<now, session, live, created, snapshots, sdkInstalledSandboxes, toolchain, parked>>

\* stopSandbox(existing.sandboxId), stop half; a throw is ignored
StartStopOld ==
  /\ op.pc = "s_stop"
  /\ \E r \in StopOutcomes(op.sandboxId) :
       /\ live' = r.live
       /\ activeSandbox' = IF r.ok THEN 0 ELSE activeSandbox
  /\ op' = [op EXCEPT !.pc = "c_stop", !.stopped = @ \cup (live \ live')]
  /\ UNCHANGED <<now, session, created, snapshots, sdkInstalledSandboxes, toolchain, parked>>

\* CreateStopActive with the assignment of line 127 inside the try: a stop
\* that throws leaves the stored handle
CreateStopActive_KeepsHandle ==
  /\ op.pc = "c_stop"
  /\ IF activeSandbox # 0
       THEN \E r \in StopOutcomes(activeSandbox) :
              /\ live' = r.live
              /\ activeSandbox' = IF r.ok THEN 0 ELSE activeSandbox
       ELSE live' = live /\ activeSandbox' = 0
  /\ op' = [op EXCEPT !.pc = "c_create", !.stopped = @ \cup (live \ live')]
  /\ UNCHANGED <<now, session, created, snapshots, sdkInstalledSandboxes, toolchain, parked>>

\* createSandbox lines 120-128: best-effort stop of the stored handle
CreateStopActive ==
  /\ op.pc = "c_stop"
  /\ IF activeSandbox # 0
       THEN \E r \in StopOutcomes(activeSandbox) : live' = r.live
       ELSE live' = live
  /\ activeSandbox' = 0
  /\ op' = [op EXCEPT !.pc = "c_create", !.stopped = @ \cup (live \ live')]
  /\ UNCHANGED <<now, session, created, snapshots, sdkInstalledSandboxes, toolchain, parked>>

\* NewSession spread over the session it replaces: the snapshotId is kept
NewSession_KeepsSnapshot(kind, sandboxId, snapshotId) ==
  [sandboxId |-> sandboxId, status |-> "running", timeout |-> now + DefaultTimeout,
   snapshotId |-> IF kind = "restore" THEN snapshotId ELSE session.snapshotId,
   origin |-> kind]

\* the session a start or a restore stores (route.ts 22-27 and 161-167)
NewSession(kind, sandboxId, snapshotId) ==
  [sandboxId |-> sandboxId, status |-> "running", timeout |-> now + DefaultTimeout,
   snapshotId |-> IF kind = "restore" THEN snapshotId ELSE 0,
   origin |-> kind]

\* createSandbox lines 130-141 and the setSession that follows; a failing
\* create is answered with status 500
CreateNew ==
  /\ op.pc = "c_create"
  /\ \/ /\ created < env.sandboxes
        /\ op.kind = "restore" => op.snapshotId \in snapshots
        /\ created' = created + 1
        /\ live' = live \cup {created + 1}
        /\ activeSandbox' = created + 1
        /\ session' = NewSession(op.kind, created + 1, op.snapshotId)
        /\ op' = Answer(op.kind, "ok")
     \/ /\ env.faults \/ created = env.sandboxes
              \/ (op.kind = "restore" /\ op.snapshotId \notin snapshots)
        /\ op' = Answer(op.kind, "error")
        /\ UNCHANGED <<created, live, activeSandbox, session>>
  /\ UNCHANGED <<now, snapshots, sdkInstalledSandboxes, toolchain, parked>>

----------------------------------------------------------------------------
(* POST /api/restore: src/apps/web/app/api/session/route.ts 143-185 *)

\* RestoreSnapshotId falling back to the session's sandboxId
RestoreSnapshotId_FromSandbox(bodyId) ==
  IF bodyId # 0 THEN bodyId ELSE getSession.sandboxId

\* lines 146-153: the snapshotId of the body, else that of the stored session
RestoreSnapshotId(bodyId) ==
  IF bodyId # 0 THEN bodyId ELSE getSession.snapshotId

\* bodyId is the snapshotId of the request body (0 = none)
RestoreBegin(bodyId) ==
  /\ op.pc = "idle"
  /\ LET snapshotId == RestoreSnapshotId(bodyId)
     IN op' = IF snapshotId = 0
                THEN Answer("restore", "No snapshot available to restore")
                ELSE [IdleOp EXCEPT !.kind = "restore", !.pc = "c_stop",
                                    !.snapshotId = snapshotId]
  /\ UNCHANGED <<now, session, activeSandbox, live, created, snapshots, sdkInstalledSandboxes, toolchain, parked>>

----------------------------------------------------------------------------
(* POST /api/snapshot: src/app/api/snapshot/route.ts *)

\* PausedSession without the snapshotId among the updates
PausedSession_StatusOnly(cur, snapshotId) ==
  updateSession(cur, [status |-> "paused"])

\* updateSession({ snapshotId, status: "paused" }) of lines 20-23
PausedSession(cur, snapshotId) ==
  updateSession(cur, [snapshotId |-> snapshotId, status |-> "paused"])

SnapshotBegin ==
  /\ op.pc = "idle"
  /\ op' = IF getSession = NoSession \/ getSession.sandboxId = 0
             THEN Answer("snapshot", "No active session")
             ELSE [IdleOp EXCEPT !.kind = "snapshot", !.pc = "p_get",
                                 !.sandboxId = getSession.sandboxId]
  /\ UNCHANGED <<now, session, activeSandbox, live, created, snapshots, sdkInstalledSandboxes, toolchain, parked>>

\* createSnapshot, reconnect half
SnapshotGet ==
  /\ op.pc = "p_get"
  /\ \E r \in ReconnectOutcomes(op.sandboxId) :
       /\ activeSandbox' = r.handle
       /\ op' = IF r.ok THEN [op EXCEPT !.pc = "p_snap"]
                        ELSE Answer("snapshot", "error")
  /\ UNCHANGED <<now, session, live, created, snapshots, sdkInstalledSandboxes, toolchain, parked>>

\* createSnapshot, snapshot half, and the updateSession that follows; the
\* snapshot of sandbox n is given the id n
SnapshotTake ==
  /\ op.pc = "p_snap"
  /\ \/ /\ op.sandboxId \in live
        /\ snapshots' = snapshots \cup {op.sandboxId}
        /\ live' = live \ {op.sandboxId}
        /\ activeSandbox' = 0
        /\ session' = PausedSession(session, op.sandboxId)
        /\ op' = Answer("snapshot", "ok")
     \/ /\ env.faults \/ op.sandboxId \notin live
        /\ op' = Answer("snapshot", "error")
        /\ UNCHANGED <<snapshots, live, activeSandbox, session>>
  /\ UNCHANGED <<now, created, sdkInstalledSandboxes, toolchain, parked>>

----------------------------------------------------------------------------
(* POST /api/stop and DELETE /api/session:                                 *)
(* src/app/api/stop/route.ts, src/apps/web/app/api/session/route.ts 68-83  *)

\* kind is "stop" (POST /api/stop) or "delete" (DELETE /api/session)
StopBegin(kind) ==
  /\ op.pc = "idle"
  /\ \/ /\ getSession.sandboxId # 0
        /\ op' = [IdleOp EXCEPT !.kind = kind, !.pc = "x_get",
                                !.sandboxId = getSession.sandboxId]
        /\ UNCHANGED session
     \/ /\ getSession.sandboxId = 0
        /\ kind = "stop"
        /\ op' = Answer(kind, "No active session")
        /\ UNCHANGED session
     \/ /\ getSession.sandboxId = 0
        /\ kind = "delete"
        /\ session' = NoSession
        /\ op' = Answer(kind, "ok")
  /\ UNCHANGED <<now, activeSandbox, live, created, snapshots, sdkInstalledSandboxes, toolchain, parked>>

\* stopSandbox, reconnect half: a throw ends POST /api/stop with status 500
\* and the session kept, and DELETE with the session cleared
StopGet ==
  /\ op.pc = "x_get"
  /\ \E r \in ReconnectOutcomes(op.sandboxId) :
       /\ activeSandbox' = r.handle
       /\ op' = IF r.ok THEN [op EXCEPT !.pc = "x_stop"]
                ELSE Answer(op.kind, IF op.kind = "stop" THEN "error" ELSE "ok")
       /\ session' = IF ~r.ok /\ op.kind = "delete" THEN NoSession ELSE session
  /\ UNCHANGED <<now, live, created, snapshots, sdkInstalledSandboxes, toolchain, parked>>

\* stopSandbox, stop half, then clearSession
StopStop ==
  /\ op.pc = "x_stop"
  /\ \E r \in StopOutcomes(op.sandboxId) :
       /\ live' = r.live
       /\ activeSandbox' = IF r.ok THEN 0 ELSE activeSandbox
       /\ session' = IF r.ok \/ op.kind = "delete" THEN NoSession ELSE session
       /\ op' = Answer(op.kind, IF r.ok \/ op.kind = "delete" THEN "ok" ELSE "error")
  /\ UNCHANGED <<now, created, snapshots, sdkInstalledSandboxes, toolchain, parked>>

----------------------------------------------------------------------------
(* GET /api/session: src/apps/web/app/api/session/route.ts 44-65 *)

\* marks an expired running session stopped, in place
GetStatus ==
  /\ session # NoSession
  /\ now > session.timeout /\ session.status = "running"
  /\ session' = [session EXCEPT !.status = "stopped"]
  /\ UNCHANGED <<now, activeSandbox, live, created, snapshots, op, sdkInstalledSandboxes, toolchain, parked>>

\* time passes
Tick ==
  /\ now < MaxTime
  /\ now' = now + 1
  /\ UNCHANGED <<session, activeSandbox, live, created, snapshots, op, sdkInstalledSandboxes, toolchain, parked>>

InitSession ==
  /\ now = 0
  /\ session = NoSession
  /\ activeSandbox = 0
  /\ live = {}
  /\ created = 0
  /\ snapshots = {}
  /\ op = IdleOp
  /\ sdkInstalledSandboxes = {}
  /\ toolchain = NoToolchain
  /\ parked = IdleOp

\* start, restore, snapshot (pause), stop and delete, step by step
LifecycleOp ==
  \/ StartBegin \/ StartStopGet \/ StartStopOld \/ CreateStopActive \/ CreateNew
  \/ \E b \in 0..MaxSandboxes : RestoreBegin(b)
  \/ SnapshotBegin \/ SnapshotGet \/ SnapshotTake
  \/ \E k \in {"stop", "delete"} : StopBegin(k)
  \/ StopGet \/ StopStop

LifecycleStep == LifecycleOp /\ UNCHANGED <<store, idsSet, poll, del, req, env, termOf>>

ClockStep == (GetStatus \/ Tick) /\ UNCHANGED <<store, idsSet, poll, del, req, env, termOf>>

----------------------------------------------------------------------------
(* The streaming request: events are enqueued on its stream until close *)

\* the cronSchedule of a request body: absent, the empty string, or a cron
\* expression
CronValues == {"undefined", "", "0 9 * * *", "*/5 * * * *"}

\* `/api/${functionName}`
RoutePath(functionName) == <<"api", functionName>>

\* Truthy for a test `cronSchedule !== undefined`
Truthy_Defined(value) == value # "undefined"

\* JavaScript truthiness of a string or undefined
Truthy(value) == value \notin {"undefined", ""}

NoConfig == [version |-> 0]

\* generateBuildOutput, lines 150-166: the config.json manifest; it has a
\* crons key only when the test of line 160 passes
ConfigManifest(functionName, cronSchedule) ==
  LET config == [version |-> 3,
                 routes |-> <<[src  |-> RoutePath(functionName),
                               dest |-> RoutePath(functionName)]>>]
  IN IF Truthy(cronSchedule)
       THEN [k \in {"version", "routes", "crons"} |->
               IF k = "crons"
                 THEN <<[path |-> RoutePath(functionName), schedule |-> cronSchedule]>>
                 ELSE config[k]]
       ELSE config

Ev(type, data) == [type |-> type, data |-> data, n |-> 0]

\* the event of the n-th line of a detached command's log feed
FeedEv(type, n) == [type |-> type, data |-> "line", n |-> n]

IdleReq == [kind |-> "none", pc |-> "idle", userId |-> "", sandboxId |-> 0,
            regions |-> "undefined", resp |-> NoResp, depId |-> "",
            events |-> <<>>, closed |-> FALSE, response |-> "",
            feed |-> 0, buildSucceeded |-> FALSE, uploads |-> 0,
            exitCode |-> "", functionName |-> "", cronSchedule |-> "undefined",
            config |-> NoConfig]

\* controller.enqueue of one event; the stream's content is kept where the
\* specification observes it
Enqueue(r, ev) == IF env.observed THEN [r EXCEPT !.events = Append(@, ev)] ELSE r

\* emit(type, data)
Emit(r, type, data) == Enqueue(r, Ev(type, data))

\* start() returning without the close of the finally block
Close_LeftOpen(r) == [IdleReq EXCEPT !.kind = r.kind, !.events = r.events,
                                     !.pc = "closed"]

\* controller.close() in the finally block; the locals of start() are gone
Close(r) == [IdleReq EXCEPT !.kind = r.kind, !.events = r.events,
                            !.closed = TRUE, !.pc = "closed"]

\* the catch block without its enqueue
Fail_Silent(r) == Close(r)

\* the catch block of the three routes: one error event, then finally
Fail(r) == Close(Emit(r, "error", "exception"))

depVars == <<store, idsSet, poll, del, termOf>>

----------------------------------------------------------------------------
(* validateActiveSession: src/lib/api-response.ts 108-139 *)

\* validateActiveSession with the paused check ahead of the expiry check
validateActiveSession_PausedFirst ==
  IF session = NoSession \/ session.sandboxId = 0
    THEN "No active session. Please create a new session."
  ELSE IF session.status = "paused"
    THEN "Session is paused. Click 'Resume' to continue."
  ELSE IF now > session.timeout
    THEN "Session has expired. Please create a new session."
  ELSE "valid"

validateActiveSession ==
  IF session = NoSession \/ session.sandboxId = 0
    THEN "No active session. Please create a new session."
  ELSE IF now > session.timeout
    THEN "Session has expired. Please create a new session."
  ELSE IF session.status = "paused"
    THEN "Session is paused. Click 'Resume' to continue."
  ELSE "valid"

\* the head of POST /api/run, /api/build and /api/deploy: the code check,
\* the session validation, then the stream is opened and start() runs up to
\* its first await
Request(kind, codeOK, userId, regions, functionName, cronSchedule) ==
  /\ req.pc \in {"idle", "closed"}
  /\ LET answer == IF ~codeOK THEN "Code is required" ELSE validateActiveSession
         opened == [IdleReq EXCEPT !.kind = kind, !.userId = userId,
                                   !.regions = regions,
                                   !.functionName =
                                      IF kind = "deploy" THEN functionName ELSE "",
                                   !.cronSchedule =
                                      IF kind = "deploy" THEN cronSchedule
                                      ELSE "undefined",
                                   !.sandboxId = session.sandboxId]
     IN req' = IF answer # "valid"
                 THEN [IdleReq EXCEPT !.kind = kind, !.response = answer]
               ELSE IF kind = "run"
                 THEN [opened EXCEPT !.pc = "r_get"]
               ELSE IF kind = "build"
                 THEN [Emit(opened, "log", "Connecting to sandbox...")
                         EXCEPT !.pc = "b_get"]
               ELSE [Emit(Emit(opened, "phase", "build"),
                          "log", "Connecting to sandbox...") EXCEPT !.pc = "b_get"]
  /\ UNCHANGED <<depVars, env, sessVars>>

\* the timeout extension of a finished request:
\* updateSession({ timeout: Date.now() + 2 * 60 * 1000 })
Extend == session' = updateSession(session, [timeout |-> now + Grace])

\* a command run on the handle of sandbox id completes ...
CanComplete(id) == id \in live

\* ... or the call throws (always, once the backend no longer runs the sandbox)
CanThrow(id) == env.faults \/ id \notin live

----------------------------------------------------------------------------
(* executeCodeStreaming under POST /api/run:                               *)
(* src/apps/web/lib/sandbox.ts 220-274, session/route.ts 106-133           *)

\* the tail of the run route once the generator has returned: the timeout
\* extension, the done event, close
RunFinish(r) ==
  /\ req' = Close(Emit(r, "done", "undefined"))
  /\ Extend

\* line 225: getOrReconnectSandbox
RunGet ==
  /\ req.pc = "r_get"
  /\ \E r \in ReconnectOutcomes(req.sandboxId) :
       /\ activeSandbox' = r.handle
       /\ req' = IF r.ok THEN [req EXCEPT !.pc = "r_bun"] ELSE Fail(req)
  /\ UNCHANGED <<session, sdkInstalledSandboxes, toolchain, parked>>

\* lines 228-233: installBun; a failed install yields stderr and exit 1 and
\* the generator returns
RunBun ==
  /\ req.pc = "r_bun"
  /\ \E r \in ReconnectOutcomes(req.sandboxId) :
       /\ activeSandbox' = r.handle
       /\ \/ /\ r.ok /\ CanComplete(req.sandboxId)
             /\ req' = [req EXCEPT !.pc = "r_launch"]
             /\ UNCHANGED session
          \/ /\ r.ok /\ CanComplete(req.sandboxId)
             /\ RunFinish(Emit(Emit(req, "stderr", "Failed to install Bun runtime"),
                               "exit", "1"))
          \/ /\ ~r.ok \/ CanThrow(req.sandboxId)
             /\ req' = Fail(req)
             /\ UNCHANGED session
  /\ UNCHANGED <<sdkInstalledSandboxes, toolchain, parked>>

\* ensureSdk (lines 296-328): a no-op for a sandbox already written to, else
\* a reconnect and the writes, the id recorded once they are done
ensureSdk(id, done) ==
  IF id \in sdkInstalledSandboxes
    THEN UNCHANGED <<activeSandbox, sdkInstalledSandboxes>>
    ELSE \E r \in ReconnectOutcomes(id) :
           /\ done => r.ok
           /\ activeSandbox' = r.handle
           /\ sdkInstalledSandboxes' =
                IF done THEN sdkInstalledSandboxes \cup {id} ELSE sdkInstalledSandboxes

\* lines 236-258: ensureSdk, mkdir, writeFiles, the detached runCommand
RunLaunch ==
  /\ req.pc = "r_launch"
  /\ \/ /\ CanComplete(req.sandboxId)
        /\ ensureSdk(req.sandboxId, TRUE)
        /\ req' = [req EXCEPT !.pc = "r_logs"]
     \/ /\ CanThrow(req.sandboxId)
        /\ \E done \in {d \in BOOLEAN : d => CanComplete(req.sandboxId)} :
             ensureSdk(req.sandboxId, done)
        /\ req' = Fail(req)
  /\ UNCHANGED <<session, toolchain, parked>>

\* lines 261-266: one turn of the for-await over command.logs()
RunLogs ==
  /\ req.pc = "r_logs"
  /\ \/ /\ req.feed < MaxLogs
        /\ \E st \in {"stdout", "stderr"} :
             req' = [Enqueue(req, FeedEv(st, req.feed + 1)) EXCEPT !.feed = @ + 1]
     \/ req' = [req EXCEPT !.pc = "r_wait"]
     \/ /\ CanThrow(req.sandboxId)
        /\ req' = Fail(req)
  /\ UNCHANGED <<session, activeSandbox, sdkInstalledSandboxes, toolchain, parked>>

\* lines 269-273: command.wait() and the exit event, then the route's tail
RunWait ==
  /\ req.pc = "r_wait"
  /\ \/ \E code \in {"0", "1"} : RunFinish(Emit(req, "exit", code))
     \/ /\ CanThrow(req.sandboxId)
        /\ req' = Fail(req)
        /\ UNCHANGED session
  /\ UNCHANGED <<activeSandbox, sdkInstalledSandboxes, toolchain, parked>>

RunStep ==
  /\ RunGet \/ RunBun \/ RunLaunch \/ RunLogs \/ RunWait
  /\ UNCHANGED <<depVars, env, now, live, created, snapshots, op>>

----------------------------------------------------------------------------
(* buildCode under POST /api/build and under phase 1 of POST /api/deploy:  *)
(* src/apps/web/lib/sandbox.ts 397-468, src/unnamed/part_014 22-46,        *)
(* src/app/api/deploy/route.ts 37-55                                       *)

\* Yield for a consumer that puts the standard-error lines first
Yield_ErrorsFirst(r, ev) ==
  IF ev.type = "error" /\ ev.n > 0 /\ env.observed
    THEN [r EXCEPT !.events = <<ev>> \o @]
    ELSE Enqueue(r, ev)

\* what the route enqueues for an event the generator yields: the build
\* route passes it on, the deploy route maps done to build_done
Yield(r, ev) ==
  IF r.kind = "deploy" /\ ev.type = "done"
    THEN [Enqueue(r, [ev EXCEPT !.type = "build_done"]) EXCEPT !.buildSucceeded = TRUE]
    ELSE Enqueue(r, ev)

\* BuildFinish without the buildSucceeded test of lines 52-55
BuildFinish_IgnoresFailure(r) ==
  IF r.kind = "build"
    THEN /\ req' = Close(r)
         /\ Extend
    ELSE /\ req' = [r EXCEPT !.pc = "d_cat"]
         /\ UNCHANGED session

\* the route once the generator has returned
BuildFinish(r) ==
  IF r.kind = "build"
    THEN /\ req' = Close(r)
         /\ Extend
  ELSE IF ~r.buildSucceeded
    THEN /\ req' = Close(Emit(r, "error", "Build failed"))
         /\ UNCHANGED session
  ELSE /\ req' = [r EXCEPT !.pc = "d_cat"]
       /\ UNCHANGED session

\* line 402: getOrReconnectSandbox
BuildGet ==
  /\ req.pc = "b_get"
  /\ \E r \in ReconnectOutcomes(req.sandboxId) :
       /\ activeSandbox' = r.handle
       /\ req' = IF r.ok
                   THEN [Yield(req, Ev("log", "Creating build directories..."))
                           EXCEPT !.pc = "b_prep"]
                   ELSE Fail(req)
  /\ UNCHANGED <<session, sdkInstalledSandboxes, toolchain, parked>>

\* lines 406-422: mkdir, ensureSdk, writeFiles
BuildPrepare ==
  /\ req.pc = "b_prep"
  /\ LET r1 == Yield(req, Ev("log", "Setting up @faas/sdk..."))
         r2 == Yield(Yield(r1, Ev("log", "SDK ready")),
                     Ev("log", "Writing source code..."))
         r3 == Yield(Yield(r2, Ev("log", "Source code written to /tmp/src/handler.ts")),
                     Ev("log", "Checking Bun runtime..."))
     IN \/ /\ CanComplete(req.sandboxId)
           /\ ensureSdk(req.sandboxId, TRUE)
           /\ req' = [r3 EXCEPT !.pc = "b_bun"]
        \/ /\ CanThrow(req.sandboxId)
           /\ \E done \in {d \in BOOLEAN : d => CanComplete(req.sandboxId)} :
                /\ ensureSdk(req.sandboxId, done)
                /\ \E r \in IF done THEN {r2} ELSE {req, r1} : req' = Fail(r)
  /\ UNCHANGED <<session, toolchain, parked>>

\* lines 426-439: installBun and its logs
BuildBun ==
  /\ req.pc = "b_bun"
  /\ \E r \in ReconnectOutcomes(req.sandboxId) :
       /\ activeSandbox' = r.handle
       /\ \/ /\ r.ok /\ CanComplete(req.sandboxId)
             /\ req' = [Yield(Yield(req, Ev("log", "Bun already installed")),
                              Ev("log", "Running bun build..."))
                          EXCEPT !.pc = "b_launch"]
             /\ UNCHANGED session
          \/ /\ r.ok /\ CanComplete(req.sandboxId)
             /\ BuildFinish(Yield(Yield(req, Ev("log", "Bun installation failed")),
                                  Ev("error", "Failed to install Bun")))
          \/ /\ ~r.ok \/ CanThrow(req.sandboxId)
             /\ req' = Fail(req)
             /\ UNCHANGED session
  /\ UNCHANGED <<sdkInstalledSandboxes, toolchain, parked>>

\* lines 442-449: the detached runCommand of bun build
BuildLaunch ==
  /\ req.pc = "b_launch"
  /\ \/ /\ CanComplete(req.sandboxId)
        /\ req' = [req EXCEPT !.pc = "b_logs"]
     \/ /\ CanThrow(req.sandboxId)
        /\ req' = Fail(req)
  /\ UNCHANGED <<session, activeSandbox, sdkInstalledSandboxes, toolchain, parked>>

\* LogType passing log.stream on, as executeCodeStreaming does
LogType_Stream(stream) == stream

\* line 453: the type buildCode gives a line of the bundler
LogType(stream) == IF stream = "stderr" THEN "error" ELSE "log"

\* lines 452-454: one turn of the for-await over buildCommand.logs(); a
\* stderr line is yielded as an error event
BuildLogs ==
  /\ req.pc = "b_logs"
  /\ \/ /\ req.feed < MaxLogs
        /\ \E st \in {"stdout", "stderr"} :
             req' = [Yield(req, FeedEv(LogType(st), req.feed + 1))
                       EXCEPT !.feed = @ + 1]
     \/ req' = [req EXCEPT !.pc = "b_wait"]
     \/ /\ CanThrow(req.sandboxId)
        /\ req' = Fail(req)
  /\ UNCHANGED <<session, activeSandbox, sdkInstalledSandboxes, toolchain, parked>>

\* line 456: buildCommand.wait() returns the exit code, or throws
BuildWait ==
  /\ req.pc = "b_wait"
  /\ \/ \E code \in {"0", "1"} : req' = [req EXCEPT !.pc = "b_end", !.exitCode = code]
     \/ /\ CanThrow(req.sandboxId)
        /\ req' = Fail(req)
  /\ UNCHANGED <<session, activeSandbox, sdkInstalledSandboxes, toolchain, parked>>

\* BuildOutcome without the exit code test of lines 458-464
BuildOutcome_AlwaysDone(r) ==
  Yield(Yield(r, Ev("log", "Build completed successfully!")),
        Ev("done", "/tmp/dist/index.js"))

\* lines 458-467: what the generator yields for the bundler's exit code
BuildOutcome(r) ==
  IF r.exitCode # "0"
    THEN Yield(r, Ev("error", "Build failed with exit code 1"))
    ELSE Yield(Yield(r, Ev("log", "Build completed successfully!")),
               Ev("done", "/tmp/dist/index.js"))

\* lines 458-467 and the return of the generator
BuildEnd ==
  /\ req.pc = "b_end"
  /\ BuildFinish(BuildOutcome(req))
  /\ UNCHANGED <<activeSandbox, sdkInstalledSandboxes, toolchain, parked>>

BuildStep ==
  /\ BuildGet \/ BuildPrepare \/ BuildBun \/ BuildLaunch \/ BuildLogs \/ BuildWait
     \/ BuildEnd
  /\ UNCHANGED <<depVars, env, now, live, created, snapshots, op>>

----------------------------------------------------------------------------
(* Deploy request, phases 2-4: src/app/api/deploy/route.ts 67-112 *)

IdlePoll == [pc |-> "idle", attempts |-> 0, userId |-> "", resp |-> NoResp,
             existing |-> NoRec, last |-> "ok"]

\* the Deployment record built from the creation response (lines 84-95)
NewDeployment(id, functionName, regions, resp) ==
  [id |-> id, url |-> resp.url, functionName |-> functionName,
   status |-> InitialStatus(resp.readyState),
   regions |-> IF regions # "undefined" THEN regions ELSE resp.regions,
   errorMessage |-> resp.errorMessage]

\* the fire-and-forget call of pollDeploymentStatus (lines 100-102)
StartsPoll(deployment) == deployment.status \in {"building", "queued"}

\* ids the backend has not handed out yet
FreshIds == {i \in env.deployIds :
               /\ \A u \in Users : getDeployment(u, i) = NoRec /\ i \notin idsSet[deploymentIdsKey(u)]
               /\ poll[i].pc = "idle"}

\* phase 1 (build, read of the bundle) has succeeded for a validated deploy
\* request of `userId`; the stream carries the events of lines 37-69
DeployBuilt(userId, regions, functionName) ==
  /\ req.kind = "none"
  /\ req' = [IdleReq EXCEPT !.kind = "deploy", !.pc = "create",
                            !.userId = userId, !.regions = regions,
                            !.functionName = functionName,
                            !.config = ConfigManifest(functionName, "undefined"),
                            !.buildSucceeded = TRUE,
                            !.events = <<Ev("phase", "build"), Ev("build_done", "/tmp/dist/index.js"),
                                         Ev("phase", "deploy")>>]
  /\ UNCHANGED <<store, idsSet, poll, del, env, termOf>>
  /\ UNCHANGED sessVars

\* DeployPhase with the two emits of lines 68-69 swapped
DeployPhase_LogFirst(r) ==
  Emit(Emit(r, "log", "Creating Vercel deployment..."), "phase", "deploy")

\* lines 68-69: the phase event and the first log of phase 2
DeployPhase(r) ==
  Emit(Emit(r, "phase", "deploy"), "log", "Creating Vercel deployment...")

\* lines 58-69: getOrReconnectSandbox, cat of the bundle, the phase event
DeployCat ==
  /\ req.kind = "deploy" /\ req.pc = "d_cat"
  /\ \E r \in ReconnectOutcomes(req.sandboxId) :
       /\ activeSandbox' = r.handle
       /\ \/ /\ r.ok /\ CanComplete(req.sandboxId)
             /\ req' = [DeployPhase(req) EXCEPT
                          !.pc = "create",
                          !.config = ConfigManifest(req.functionName,
                                                    req.cronSchedule)]
          \/ /\ r.ok /\ CanComplete(req.sandboxId)
             /\ req' = Close(Emit(req, "error", "Failed to read bundled code"))
          \/ /\ ~r.ok \/ CanThrow(req.sandboxId)
             /\ req' = Fail(req)
  /\ UNCHANGED <<depVars, env, now, session, live, created, snapshots, op,
                 sdkInstalledSandboxes, toolchain, parked>>

\* the catch block of the deploy route without its emit
DeployAbort_NoError(r) == Close(r)

\* a throw of createDeployment or addDeployment reaches the catch block of
\* the deploy route (lines 132-137)
DeployAbort(r) == Fail(r)

\* createDeployment lines 200-207: uploadFile of the next file of the build
\* output; a response that is not ok throws
DeployUpload ==
  /\ req.kind = "deploy" /\ req.pc = "create"
  /\ req.uploads < NumFiles
  /\ \/ req' = [req EXCEPT !.uploads = @ + 1]
     \/ req' = DeployAbort([req EXCEPT !.uploads = @ + 1])
  /\ UNCHANGED <<store, idsSet, poll, del, env, termOf>>
  /\ UNCHANGED sessVars

\* createDeployment lines 209-252: the POST of the deployment once every file
\* is uploaded; the backend accepts and answers, or the call throws
DeployCreate ==
  /\ req.kind = "deploy" /\ req.pc = "create"
  /\ req.uploads = NumFiles
  /\ \/ \E id \in FreshIds, resp \in env.responses :
          req' = [req EXCEPT !.pc = "persist", !.resp = resp, !.depId = id]
     \/ req' = DeployAbort(req)
  /\ UNCHANGED <<store, idsSet, poll, del, env, termOf>>
  /\ UNCHANGED sessVars

\* addDeployment, then the poll loop is started and deploy_done emitted
\* (lines 84-112); a failing store write throws
DeployPersist ==
  /\ req.kind = "deploy" /\ req.pc = "persist"
  /\ LET deployment == NewDeployment(req.depId, req.functionName, req.regions, req.resp)
     IN \/ /\ addDeployment(req.userId, deployment)
           /\ poll' = IF StartsPoll(deployment)
                        THEN [poll EXCEPT ![deployment.id] =
                                [IdlePoll EXCEPT !.pc = "loop", !.userId = req.userId]]
                        ELSE poll
           /\ req' = [Emit(Emit(req, "log", "Deployment started"),
                           "deploy_done", deployment.id)
                        EXCEPT !.pc = "d_snap"]
        \/ /\ req' = DeployAbort(req)
           /\ UNCHANGED <<store, idsSet, poll, termOf>>
  /\ UNCHANGED <<del, env>>
  /\ UNCHANGED sessVars

\* SnapshotFailed with the failure reported as an error event
SnapshotFailed_Error(r) ==
  Close(Emit(r, "error", "Failed to create snapshot after deployment"))

\* the catch of lines 123-126: a warning in the log, then the stream ends
SnapshotFailed(r) ==
  Close(Emit(r, "log", "Warning: Failed to create snapshot after deployment"))

\* lines 114-137: createSnapshot in its own try/catch, the session marked
\* paused, then the timeout extension and close
DeploySnapshot ==
  /\ req.kind = "deploy" /\ req.pc = "d_snap"
  /\ \E r \in ReconnectOutcomes(req.sandboxId) :
       \/ /\ r.ok /\ CanComplete(req.sandboxId)
          /\ snapshots' = snapshots \cup {req.sandboxId}
          /\ live' = live \ {req.sandboxId}
          /\ activeSandbox' = 0
          /\ session' = updateSession(
                          updateSession(session, [snapshotId |-> req.sandboxId,
                                                  status |-> "paused"]),
                          [timeout |-> now + Grace])
          /\ req' = Close(Emit(Emit(req, "snapshot", req.sandboxId),
                               "log", "Sandbox paused."))
       \/ /\ ~r.ok \/ CanThrow(req.sandboxId)
          /\ activeSandbox' = r.handle
          /\ Extend
          /\ req' = SnapshotFailed(req)
          /\ UNCHANGED <<snapshots, live>>
  /\ UNCHANGED <<depVars, env, now, created, op, sdkInstalledSandboxes, toolchain, parked>>

DeployStep == DeployCat \/ DeployUpload \/ DeployCreate \/ DeployPersist \/ DeploySnapshot

----------------------------------------------------------------------------
(* pollDeploymentStatus: src/app/api/deploy/route.ts 147-182 *)

\* PollQuery without the try/catch of lines 155-180: a failing query ends
\* the loop
PollQuery_Rethrow(id) ==
  /\ poll[id].pc = "loop"
  /\ poll[id].attempts < maxAttempts
  /\ \/ \E resp \in env.responses :
          poll' = [poll EXCEPT ![id].attempts = @ + 1, ![id].resp = resp,
                               ![id].pc = "get", ![id].last = "ok"]
     \/ poll' = [poll EXCEPT ![id].attempts = @ + 1, ![id].last = "threw",
                              ![id].pc = "done"]
  /\ UNCHANGED <<store, idsSet, del, req, env, termOf>>
  /\ UNCHANGED sessVars

\* loop head with attempts < maxAttempts: sleep, attempts++, getDeploymentStatus
PollQuery(id) ==
  /\ poll[id].pc = "loop"
  /\ poll[id].attempts < maxAttempts
  /\ \/ \E resp \in env.responses :
          poll' = [poll EXCEPT ![id].attempts = @ + 1, ![id].resp = resp,
                               ![id].pc = "get", ![id].last = "ok"]
     \/ poll' = [poll EXCEPT ![id].attempts = @ + 1, ![id].last = "threw"]
  /\ UNCHANGED <<store, idsSet, del, req, env, termOf>>
  /\ UNCHANGED sessVars

\* loop head with attempts = maxAttempts: the while condition fails
PollGiveUp(id) ==
  /\ poll[id].pc = "loop"
  /\ ~(poll[id].attempts < maxAttempts)
  /\ poll' = [poll EXCEPT ![id].pc = "done"]
  /\ UNCHANGED <<store, idsSet, del, req, env, termOf>>
  /\ UNCHANGED sessVars

\* AfterUpdate without the break of lines 175-177
AfterUpdate_NoBreak(p) == "loop"

\* what follows updateDeployment in the iteration: break on a terminal status
AfterUpdate(p) ==
  IF IsTerminal(PollStatus(p.resp.readyState)) THEN "done" ELSE "loop"

\* updateDeployment, read half: getDeployment; a missing record returns null
PollGet(id) ==
  /\ poll[id].pc = "get"
  /\ LET existing == getDeployment(poll[id].userId, id)
     IN \/ /\ existing # NoRec
           /\ poll' = [poll EXCEPT ![id].existing = existing, ![id].pc = "set"]
        \/ /\ existing = NoRec
           /\ poll' = [poll EXCEPT ![id].pc = AfterUpdate(poll[id]),
                                    ![id].last = "ok"]
        \/ poll' = [poll EXCEPT ![id].pc = "loop", ![id].last = "threw"]
  /\ UNCHANGED <<store, idsSet, del, req, env, termOf>>
  /\ UNCHANGED sessVars

\* updateDeployment, write half: redis.set of the merged record
PollSet(id) ==
  /\ poll[id].pc = "set"
  /\ \/ /\ updateDeploymentSet(poll[id].userId, id, poll[id].existing,
                                 PollUpdates(poll[id].resp))
        /\ poll' = [poll EXCEPT ![id].pc = AfterUpdate(poll[id]),
                                 ![id].existing = NoRec, ![id].last = "ok"]
     \/ /\ poll' = [poll EXCEPT ![id].pc = "loop", ![id].existing = NoRec,
                                 ![id].last = "threw"]
        /\ UNCHANGED <<store, idsSet, termOf>>
  /\ UNCHANGED <<del, req, env>>
  /\ UNCHANGED sessVars

PollStep(id) == PollQuery(id) \/ PollGiveUp(id) \/ PollGet(id) \/ PollSet(id)

----------------------------------------------------------------------------
(* DELETE /api/deployments/[id]: src/app/api/deployments/[id]/route.ts 99-127 *)

\* result is the status of the last response sent, remote the outcome of
\* the last deleteVercelDeployment call
IdleDel == [pc |-> "idle", userId |-> "", id |-> "", result |-> "", remote |-> ""]

\* the backend's DELETE answers ok, or 404, or another error; the last two
\* make deleteVercelDeployment throw
RemoteDeleteOutcomes == {"ok", "404", "error"}

\* getDeployment under the caller's key: 404 when absent
DeleteLookup(userId, id) ==
  /\ del.pc = "idle"
  /\ del' = IF getDeployment(userId, id) = NoRec
              THEN [IdleDel EXCEPT !.result = "404"]
              ELSE [IdleDel EXCEPT !.pc = "remote", !.userId = userId, !.id = id]
  /\ UNCHANGED <<store, idsSet, poll, req, env, termOf>>
  /\ UNCHANGED sessVars

\* AfterRemoteDelete with the catch rethrowing what is not a 404
AfterRemoteDelete_Only404(outcome) ==
  IF outcome \in {"ok", "404"} THEN "local" ELSE "idle"

\* lines 111-121: the catch logs what is not a 404 and rethrows nothing
AfterRemoteDelete(outcome) == "local"

\* deleteVercelDeployment: its failure is caught and ignored
DeleteRemote ==
  /\ del.pc = "remote"
  /\ \E outcome \in RemoteDeleteOutcomes :
       del' = IF AfterRemoteDelete(outcome) = "local"
                THEN [del EXCEPT !.pc = "local", !.remote = outcome]
                ELSE [IdleDel EXCEPT !.result = "500", !.remote = outcome]
  /\ UNCHANGED <<store, idsSet, poll, req, env, termOf>>
  /\ UNCHANGED sessVars

\* deleteDeployment from the store, then the 200 response
DeleteLocal ==
  /\ del.pc = "local"
  /\ deleteDeployment(del.userId, del.id)
  /\ del' = [IdleDel EXCEPT !.result = "200", !.remote = del.remote]
  /\ UNCHANGED <<poll, req, env>>
  /\ UNCHANGED sessVars

----------------------------------------------------------------------------
(* The deployment store with one deploy request, its poll loop and deletes *)

\* a record left by an earlier deploy whose poll loop has ended
Bystander(id) ==
  [id |-> id, url |-> "https://b.vercel.app", functionName |-> "handler",
   status |-> "ready", regions |-> "iad1", errorMessage |-> "undefined"]

\* responses that differ in readyState alone
StatusResponses ==
  {r \in Responses : /\ r.url = "https://a.vercel.app"
                     /\ r.regions = "undefined"
                     /\ r.errorMessage = IF r.readyState = "ERROR" THEN "build failed"
                                         ELSE "undefined"}

\* the creation responses the deploy requests of these specifications receive
CreateResponses ==
  {r \in StatusResponses : r.readyState \in {"READY", "BUILDING"}}

InitStore ==
  /\ store = [k \in StoreKeys |-> NoRec]
  /\ idsSet = [v \in IdsKeys |-> {}]
  /\ termOf = [k \in StoreKeys |-> ""]
  /\ poll = [i \in DeployIds |-> IdlePoll]
  /\ del = IdleDel
  /\ req = IdleReq

InitPoll ==
  /\ store = [k \in StoreKeys |->
                IF k = deploymentKey("ipA", "dpl_2") THEN Bystander("dpl_2") ELSE NoRec]
  /\ idsSet = [v \in IdsKeys |-> IF v = deploymentIdsKey("ipA") THEN {"dpl_2"} ELSE {}]
  /\ termOf = [k \in StoreKeys |->
                 IF k = deploymentKey("ipA", "dpl_2") THEN "ready" ELSE ""]
  /\ poll = [i \in DeployIds |-> IF i = "dpl_2" THEN [IdlePoll EXCEPT !.pc = "done"]
                                  ELSE IdlePoll]
  /\ del = IdleDel
  /\ env = [responses |-> StatusResponses, regions |-> {"undefined"},
            deployers |-> {"ipA"}, deployIds |-> DeployIds, deleteIds |-> {"dpl_1"}, faults |-> TRUE, observed |-> TRUE, sandboxes |-> MaxSandboxes,
            functionNames |-> {"handler"},
            cronSchedules |-> {"undefined"}]
  /\ req = IdleReq
  /\ InitSession

NextPoll ==
  \/ \E u \in env.deployers, r \in env.regions, f \in env.functionNames :
       DeployBuilt(u, r, f)
  \/ DeployUpload
  \/ DeployCreate
  \/ DeployPersist
  \/ \E i \in DeployIds : PollQuery(i)
  \/ \E i \in DeployIds : PollGiveUp(i)
  \/ \E i \in DeployIds : PollGet(i)
  \/ \E i \in DeployIds : PollSet(i)
  \/ \E u \in Users, i \in env.deleteIds : DeleteLookup(u, i)
  \/ DeleteRemote
  \/ DeleteLocal

SpecPoll == InitPoll /\ [][NextPoll]_vars

\* the poll loop is an async function on the event loop: each of its awaits
\* resumes once the awaited call has returned or thrown
FairSpecPoll == SpecPoll /\ \A i \in DeployIds : WF_vars(PollStep(i))

----------------------------------------------------------------------------
(* pollDeploymentStatus as a unit: invoked on any stored record *)

AnyRecord(id) ==
  {[id |-> id, url |-> "https://a.vercel.app", functionName |-> "handler",
    status |-> s, regions |-> "undefined", errorMessage |-> "undefined"] :
     s \in Statuses}

InitPollUnit ==
  /\ \E rec \in AnyRecord("dpl_1") :
        /\ store = [k \in StoreKeys |->
                      IF k = deploymentKey("ipA", "dpl_1") THEN rec ELSE NoRec]
        /\ termOf = [k \in StoreKeys |->
                       IF k = deploymentKey("ipA", "dpl_1") /\ IsTerminal(rec.status)
                         THEN rec.status ELSE ""]
  /\ idsSet = [v \in IdsKeys |-> IF v = deploymentIdsKey("ipA") THEN {"dpl_1"} ELSE {}]
  /\ poll = [i \in DeployIds |->
               IF i = "dpl_1" THEN [IdlePoll EXCEPT !.pc = "loop", !.userId = "ipA"]
               ELSE IdlePoll]
  /\ del = IdleDel
  /\ req = IdleReq
  /\ InitSession
  /\ env = [responses |-> StatusResponses, regions |-> {"undefined"},
            deployers |-> {}, deployIds |-> DeployIds, deleteIds |-> {}, faults |-> TRUE, observed |-> TRUE, sandboxes |-> MaxSandboxes,
            functionNames |-> {"handler"},
            cronSchedules |-> {"undefined"}]

NextPollUnit ==
  \/ \E i \in DeployIds : PollQuery(i)
  \/ \E i \in DeployIds : PollGiveUp(i)
  \/ \E i \in DeployIds : PollGet(i)
  \/ \E i \in DeployIds : PollSet(i)

SpecPollUnit == InitPollUnit /\ [][NextPollUnit]_vars

----------------------------------------------------------------------------
(* pollDeploymentStatus on a record with or without regions, the backend
   answering every regions value *)

RegionResponses ==
  {r \in Responses : /\ r.url = "https://a.vercel.app"
                     /\ r.errorMessage = IF r.readyState = "ERROR" THEN "build failed"
                                         ELSE "undefined"}

InitPollRegions ==
  /\ \E g \in {"undefined", "iad1"} :
        store = [k \in StoreKeys |->
                   IF k = deploymentKey("ipA", "dpl_1")
                     THEN [id |-> "dpl_1", url |-> "https://a.vercel.app",
                           functionName |-> "handler", status |-> "building",
                           regions |-> g, errorMessage |-> "undefined"]
                     ELSE NoRec]
  /\ termOf = [k \in StoreKeys |-> ""]
  /\ idsSet = [v \in IdsKeys |-> IF v = deploymentIdsKey("ipA") THEN {"dpl_1"} ELSE {}]
  /\ poll = [i \in DeployIds |->
               IF i = "dpl_1" THEN [IdlePoll EXCEPT !.pc = "loop", !.userId = "ipA"]
               ELSE IdlePoll]
  /\ del = IdleDel
  /\ req = IdleReq
  /\ InitSession
  /\ env = [responses |-> RegionResponses, regions |-> {"undefined"},
            deployers |-> {}, deployIds |-> DeployIds, deleteIds |-> {},
            faults |-> TRUE, observed |-> TRUE, sandboxes |-> MaxSandboxes,
            functionNames |-> {"handler"},
            cronSchedules |-> {"undefined"}]

SpecPollRegions == InitPollRegions /\ [][NextPollUnit]_vars

----------------------------------------------------------------------------
(* The store operations issued under several partition keys *)

\* the callers of this specification: "fe80:1" and "fe80" are two values of
\* the first x-forwarded-for entry, one a prefix of the other up to a ":"
PartitionCallers == {"ipA", "fe80", "fe80:1"}

\* the ids the backend has given out
BackendIds == {"dpl_1"}

\* addDeployment of the record of a creation response (deploy/route.ts 94-98)
AddRecord(userId, id, resp) ==
  /\ addDeployment(userId, NewDeployment(id, "handler", "undefined", resp))
  /\ UNCHANGED <<poll, del, req, env>>
  /\ UNCHANGED sessVars

\* updateDeployment with the updates of a status response: null when the
\* record is absent
UpdateRecord(userId, id, resp) ==
  /\ getDeployment(userId, id) # NoRec
  /\ updateDeploymentSet(userId, id, getDeployment(userId, id), PollUpdates(resp))
  /\ UNCHANGED <<poll, del, req, env>>
  /\ UNCHANGED sessVars

ClearRecords(userId) ==
  /\ idsSet[deploymentIdsKey(userId)] # {}
  /\ clearDeployments(userId)
  /\ UNCHANGED <<poll, del, req, env>>
  /\ UNCHANGED sessVars

InitPartition ==
  /\ InitStore
  /\ InitSession
  /\ env = [responses |-> StatusResponses, regions |-> {"undefined"},
            deployers |-> PartitionCallers, deployIds |-> BackendIds,
            deleteIds |-> RequestIds, faults |-> FALSE, observed |-> FALSE, sandboxes |-> MaxSandboxes,
            functionNames |-> {"handler"},
            cronSchedules |-> {"undefined"}]

NextPartition ==
  \/ \E u \in env.deployers, i \in env.deployIds, r \in CreateResponses :
       AddRecord(u, i, r)
  \/ \E u \in env.deployers, i \in env.deployIds, r \in env.responses :
       UpdateRecord(u, i, r)
  \/ \E u \in env.deployers : ClearRecords(u)
  \/ \E u \in env.deployers, i \in env.deleteIds : DeleteLookup(u, i)
  \/ DeleteRemote
  \/ DeleteLocal

SpecPartition == InitPartition /\ [][NextPartition]_vars

----------------------------------------------------------------------------
(* Streaming requests against a session, with the clock *)

\* no session has been started, or a start has completed at time 0 and the
\* process still holds the handle or has lost it
InitStream ==
  /\ InitStore
  /\ now = 0
  /\ op = IdleOp
  /\ snapshots = {}
  /\ sdkInstalledSandboxes = {}
  /\ toolchain = NoToolchain
  /\ parked = IdleOp
  /\ \/ /\ session = NoSession
        /\ created = 0 /\ live = {} /\ activeSandbox = 0
     \/ /\ session = NewSession("start", 1, 0)
        /\ created = 1 /\ live = {1} /\ activeSandbox \in {0, 1}
  /\ env = [responses |-> CreateResponses, regions |-> {"undefined"},
            deployers |-> {"ipA"}, deployIds |-> DeployIds, deleteIds |-> {},
            faults |-> TRUE, observed |-> TRUE, sandboxes |-> MaxSandboxes,
            functionNames |-> {"handler"},
            cronSchedules |-> {"undefined"}]

StreamStep == RunStep \/ BuildStep \/ DeployStep

AnyRequest ==
  \E k \in {"run", "build", "deploy"}, c \in BOOLEAN,
     u \in env.deployers, g \in env.regions, f \in env.functionNames,
     s \in env.cronSchedules :
       Request(k, c, u, g, f, s)

NextStream ==
  \/ AnyRequest
  \/ StreamStep
  \/ ClockStep

SpecStream == InitStream /\ [][NextStream]_vars

\* start() of a stream is an async function on the event loop: each of its
\* awaits resumes once the awaited call has returned or thrown
FairSpecStream == SpecStream /\ WF_vars(StreamStep)

----------------------------------------------------------------------------
(* The session under its lifecycle operations and streaming requests *)

InitLifecycle ==
  /\ InitStore
  /\ InitSession
  /\ env = [responses |-> CreateResponses, regions |-> {"undefined"},
            deployers |-> {"ipA"}, deployIds |-> {"dpl_1"}, deleteIds |-> {},
            faults |-> TRUE, observed |-> FALSE, sandboxes |-> MaxSandboxes,
            functionNames |-> {"handler"},
            cronSchedules |-> {"undefined"}]

NextLifecycle ==
  \/ LifecycleStep
  \/ AnyRequest
  \/ StreamStep

SpecLifecycle == InitLifecycle /\ [][NextLifecycle]_vars

----------------------------------------------------------------------------
(* An ageing session under snapshot (pause) operations and requests *)

SnapshotStep ==
  /\ SnapshotBegin \/ SnapshotGet \/ SnapshotTake
  /\ UNCHANGED <<store, idsSet, poll, del, req, env, termOf>>

InitExpiry ==
  /\ InitStore
  /\ now = 0
  /\ op = IdleOp
  /\ snapshots = {}
  /\ sdkInstalledSandboxes = {}
  /\ toolchain = NoToolchain
  /\ parked = IdleOp
  /\ session = NewSession("start", 1, 0)
  /\ created = 1 /\ live = {1} /\ activeSandbox \in {0, 1}
  /\ env = [responses |-> CreateResponses, regions |-> {"undefined"},
            deployers |-> {"ipA"}, deployIds |-> {"dpl_1"}, deleteIds |-> {},
            faults |-> TRUE, observed |-> FALSE, sandboxes |-> MaxSandboxes,
            functionNames |-> {"handler"},
            cronSchedules |-> {"undefined"}]

NextExpiry ==
  \/ ClockStep
  \/ SnapshotStep
  \/ AnyRequest
  \/ StreamStep

SpecExpiry == InitExpiry /\ [][NextExpiry]_vars

----------------------------------------------------------------------------
(* Deploy requests against a started session: every function name, and
   creation responses that differ in url and readyState *)

DeployResponses ==
  {r \in Responses : /\ r.readyState \in {"READY", "BUILDING"}
                     /\ r.regions = "undefined"
                     /\ r.errorMessage = "undefined"}

InitDeploy ==
  /\ InitStore
  /\ now = 0
  /\ op = IdleOp
  /\ snapshots = {}
  /\ sdkInstalledSandboxes = {}
  /\ toolchain = NoToolchain
  /\ parked = IdleOp
  /\ session = NewSession("start", 1, 0)
  /\ created = 1 /\ live = {1} /\ activeSandbox \in {0, 1}
  /\ env = [responses |-> DeployResponses, regions |-> {"undefined"},
            deployers |-> {"ipA"}, deployIds |-> {"dpl_1"}, deleteIds |-> {},
            faults |-> TRUE, observed |-> TRUE, sandboxes |-> MaxSandboxes,
            functionNames |-> FunctionNames,
            cronSchedules |-> CronValues]

NextDeploy ==
  \/ AnyRequest
  \/ StreamStep

SpecDeploy == InitDeploy /\ [][NextDeploy]_vars

----------------------------------------------------------------------------
(* The toolchain installation step as a unit: installBun and ensureSdk
   called on one sandbox, src/apps/web/lib/sandbox.ts 296-391 *)

\* one call on record: how it ended (ok = returned, for installBun with
\* success true; failed = installBun returned success false; threw) and
\* whether it ran the install command or the SDK writes
Call(outcome, worked) == [outcome |-> outcome, worked |-> worked]

ToolchainFrame ==
  UNCHANGED <<store, idsSet, poll, del, req, env, termOf,
              now, session, live, created, snapshots, op, parked>>

\* installBun whose check for an installed Bun never succeeds
BunFound_Never(id) == FALSE

\* the check of lines 345-354: `which bun` exits with 0
BunFound(id) == id \in toolchain.bun

\* installBun(id): reconnect, the check, and when Bun is not found the
\* install command and the verification
installBun(id) ==
  /\ Len(toolchain.installBun) < MaxCalls
  /\ \E r \in ReconnectOutcomes(id) :
       /\ activeSandbox' = r.handle
       /\ \/ /\ ~r.ok \/ CanThrow(id)
             /\ toolchain' = [toolchain EXCEPT
                                !.installBun = Append(@, Call("threw", FALSE))]
          \/ /\ r.ok /\ CanComplete(id) /\ BunFound(id)
             /\ toolchain' = [toolchain EXCEPT
                                !.installBun = Append(@, Call("ok", FALSE))]
          \/ /\ r.ok /\ CanComplete(id) /\ ~BunFound(id)
             /\ \/ toolchain' = [toolchain EXCEPT
                                   !.bun = @ \cup {id},
                                   !.installBun = Append(@, Call("ok", TRUE))]
                \/ toolchain' = [toolchain EXCEPT
                                   !.installBun = Append(@, Call("failed", TRUE))]
          \/ /\ r.ok /\ CanThrow(id) /\ ~BunFound(id)
             /\ \E b \in {toolchain.bun, toolchain.bun \cup {id}} :
                  toolchain' = [toolchain EXCEPT
                                  !.bun = b,
                                  !.installBun = Append(@, Call("threw", TRUE))]
  /\ UNCHANGED sdkInstalledSandboxes
  /\ ToolchainFrame

\* ensureSdk(id) as a call of its own: it returns, or throws before or
\* after having begun the writes
EnsureSdkCall(id) ==
  /\ Len(toolchain.ensureSdk) < MaxCalls
  /\ \/ /\ id \in sdkInstalledSandboxes
        /\ ensureSdk(id, TRUE)
        /\ toolchain' = [toolchain EXCEPT
                           !.ensureSdk = Append(@, Call("ok", FALSE))]
     \/ /\ id \notin sdkInstalledSandboxes
        /\ CanComplete(id)
        /\ ensureSdk(id, TRUE)
        /\ toolchain' = [toolchain EXCEPT
                           !.ensureSdk = Append(@, Call("ok", TRUE))]
     \/ /\ id \notin sdkInstalledSandboxes
        /\ CanThrow(id)
        /\ ensureSdk(id, FALSE)
        /\ \E w \in {b \in BOOLEAN : b => activeSandbox' = id} :
             toolchain' = [toolchain EXCEPT
                             !.ensureSdk = Append(@, Call("threw", w))]
  /\ ToolchainFrame

\* every sandbox is running; the one the calls are made on has Bun (it was
\* created from a snapshot that had it) or not
InitToolchain ==
  /\ InitStore
  /\ now = 0
  /\ op = IdleOp
  /\ parked = IdleOp
  /\ snapshots = {}
  /\ session = NoSession
  /\ created = MaxSandboxes /\ live = SandboxIds
  /\ activeSandbox \in {0} \cup SandboxIds
  /\ sdkInstalledSandboxes = {}
  /\ \E id \in SandboxIds, bun \in SUBSET SandboxIds :
       toolchain = [NoToolchain EXCEPT !.id = id, !.bun = bun]
  /\ env = [responses |-> CreateResponses, regions |-> {"undefined"},
            deployers |-> {}, deployIds |-> {}, deleteIds |-> {},
            faults |-> TRUE, observed |-> FALSE, sandboxes |-> MaxSandboxes,
            functionNames |-> {"handler"},
            cronSchedules |-> {"undefined"}]

NextToolchain ==
  \/ installBun(toolchain.id)
  \/ EnsureSdkCall(toolchain.id)

SpecToolchain == InitToolchain /\ [][NextToolchain]_vars

----------------------------------------------------------------------------
(* Properties of the deployment status *)


\* C1: once a stored Deployment record has held a terminal status (ready,
\* error or canceled), every record later stored under that key carries that
\* same status, across deploys, poll-loop writes and deletes.
C1_TerminalStatusStable ==
  \A k \in StoreKeys :
    (termOf[k] # "" /\ store[k] # NoRec) => store[k].status = termOf[k]

\* a poll loop has written a terminal status over a non-terminal record and
\* has stopped
C1_Witness ==
  /\ store[deploymentKey("ipA", "dpl_1")].status \in TerminalStatuses
  /\ poll["dpl_1"].pc = "done"
  /\ poll["dpl_1"].attempts >= 2
  /\ poll["dpl_1"].attempts < maxAttempts

C3_PollTerminates ==
  /\ [](\A i \in DeployIds : poll[i].attempts <= maxAttempts)
  /\ [][\A i \in DeployIds :
          /\ (/\ poll[i].pc = "set" /\ poll'[i].pc # "set" /\ poll'[i].last = "ok"
              /\ IsTerminal(PollStatus(poll[i].resp.readyState)))
             => poll'[i].pc = "done"
          /\ (/\ poll'[i].last = "threw"
              /\ poll'[i].attempts # poll[i].attempts \/ poll[i].pc \in {"get", "set"})
             => poll'[i].pc = "loop"
          /\ (poll[i].pc # "done" /\ poll'[i].pc = "done")
             => \/ poll[i].attempts = maxAttempts
                \/ /\ poll'[i].last = "ok"
                   /\ IsTerminal(PollStatus(poll[i].resp.readyState))
          /\ poll[i].pc = "done" => poll'[i] = poll[i]]_vars
  /\ \A i \in DeployIds : (poll[i].pc = "loop") ~> (poll[i].pc = "done")

\* a loop that has run out of attempts after a throwing call, the record
\* still non-terminal
C3_Witness ==
  /\ poll["dpl_1"].pc = "done"
  /\ poll["dpl_1"].attempts = maxAttempts
  /\ poll["dpl_1"].last = "threw"
  /\ store[deploymentKey("ipA", "dpl_1")].status \in {"building", "queued"}

\* C4: when a poll loop has ended with an iteration that fetched a terminal
\* remote state and whose store calls did not throw, the record stored under
\* the deployment's key, if it has not been deleted, carries the status of
\* that remote state.
C4_ConvergesToRemote ==
  \A i \in DeployIds :
    LET k == deploymentKey(poll[i].userId, i)
    IN (/\ poll[i].pc = "done"
        /\ poll[i].last = "ok"
        /\ poll[i].resp # NoResp
        /\ IsTerminal(PollStatus(poll[i].resp.readyState))
        /\ store[k] # NoRec)
       => store[k].status = PollStatus(poll[i].resp.readyState)

\* the loop has ended on a fetched CANCELED state after earlier iterations in
\* which the query or the store write threw
C4_Witness ==
  /\ poll["dpl_1"].pc = "done"
  /\ poll["dpl_1"].last = "ok"
  /\ poll["dpl_1"].resp.readyState = "CANCELED"
  /\ poll["dpl_1"].attempts > 3
  /\ store[deploymentKey("ipA", "dpl_1")].status = "canceled"

----------------------------------------------------------------------------
(* Properties of the streaming requests and of the session *)

MsgCode == "Code is required"
MsgAbsent == "No active session. Please create a new session."
MsgExpired == "Session has expired. Please create a new session."
MsgPaused == "Session is paused. Click 'Resume' to continue."

\* the step is the head of a run, build or deploy request
RequestHead == req.pc \in {"idle", "closed"} /\ req' # req

\* the message the session checks owe the request, "" when all three pass
OwedMessage ==
  IF session = NoSession THEN MsgAbsent
  ELSE IF now > session.timeout THEN MsgExpired
  ELSE IF session.status = "paused" THEN MsgPaused
  ELSE ""

\* a rejected request has called no backend and written nothing
NothingTouched ==
  /\ req'.pc = "idle" /\ req'.events = <<>>
  /\ UNCHANGED <<session, activeSandbox, live, created, snapshots,
                 sdkInstalledSandboxes, store, idsSet, poll>>

\* C5 as stated: every run, build or deploy request issued when the session
\* store is empty, the timeout has passed or the session is paused is
\* rejected with the message of the first failing check (absent, expired,
\* paused), and touches no backend, session or store.
C5_RejectedByFirstFailingCheck ==
  [][(RequestHead /\ OwedMessage # "")
       => (req'.response = OwedMessage /\ NothingTouched)]_vars

\* C5: a run, build or deploy request that carries a code string and is
\* issued when the session store is empty, the timeout has passed or the
\* session is paused is rejected with the message of the first failing check
\* (absent, then expired, then paused); a request without a code string is
\* rejected with the code message whatever the session; and no rejected
\* request makes a backend call, a session mutation or a store write.
C5_RejectedBeforeActing ==
  [][RequestHead
       => /\ (req'.response # MsgCode /\ OwedMessage # "")
               => req'.response = OwedMessage
          /\ req'.response # "" => NothingTouched
          /\ req'.response \in {"", MsgCode, OwedMessage}]_vars

\* a deploy request rejected as expired although the session is paused too
C5_Witness ==
  /\ req.kind = "deploy" /\ req.pc = "idle"
  /\ req.response = MsgExpired
  /\ session.status = "paused"
  /\ now > session.timeout

\* positions of the events of a stream whose type is in `types`
Positions(events, types) == {i \in 1..Len(events) : events[i].type \in types}

\* C6: a run stream carries at most one event of type exit or error at any
\* time, never both, and exactly one once it is closed.
C6_OneExitOrError ==
  req.kind = "run" =>
    /\ Cardinality(Positions(req.events, {"exit", "error"})) <= 1
    /\ req.closed => Cardinality(Positions(req.events, {"exit", "error"})) = 1

\* a closed run stream whose command wrote a line before a call threw
C6_Witness ==
  /\ req.kind = "run" /\ req.closed
  /\ Positions(req.events, {"error"}) # {}
  /\ Positions(req.events, {"stdout"}) # {}

\* C7: every opened stream is eventually closed, and a closed stream is
\* left as it is until the next request replaces it.
C7_StreamsClosed ==
  /\ [][req.closed => \/ req' = req
                      \/ ~req'.closed /\ req'.pc \in {"idle", "r_get", "b_get"}]_vars
  /\ (req.pc \notin {"idle", "closed"}) ~> req.closed

\* a deploy stream closed by the catch block after deploy_done was not reached
C7_Witness ==
  /\ req.kind = "deploy" /\ req.closed
  /\ Positions(req.events, {"phase"}) # {}
  /\ Positions(req.events, {"deploy_done"}) = {}
  /\ req.events[Len(req.events)].type = "error"

\* the events of a stream that were taken from the command's log feed keep
\* the order of the feed
FeedOrder(events) ==
  \A i, j \in 1..Len(events) :
    (i < j /\ events[i].n > 0 /\ events[j].n > 0) => events[i].n < events[j].n

C9_TimeoutGrowsByGrace ==
  [][(/\ req.kind \in {"run", "build"} /\ ~req.closed /\ req'.closed
      /\ req'.events # <<>> /\ req'.events[Len(req'.events)].type = "done"
      /\ session # NoSession /\ session.status = "running")
       => /\ session'.timeout > session.timeout
          /\ session'.timeout = session.timeout + Grace]_vars

\* C10 as stated: whenever the stored session has a snapshotId its status is
\* paused.
C10_SnapshotIdOnlyWhenPaused ==
  session.snapshotId # 0 => session.status = "paused"

\* C10: whenever the stored session has a snapshotId, its status is paused
\* or the session is one a restore stored, which keeps the id of the snapshot
\* it was created from; and a session a restore stored has a snapshotId.
C10_SnapshotIdPausedOrRestored ==
  /\ session.snapshotId # 0 => (session.status = "paused" \/ session.origin = "restore")
  /\ session.origin = "restore" => session.snapshotId # 0

\* a session paused by the snapshot a deploy request took
C10_Witness ==
  /\ session.snapshotId # 0 /\ session.status = "paused"
  /\ session.origin = "start"
  /\ req.kind = "deploy" /\ req.closed

----------------------------------------------------------------------------
(* Properties of an expired session *)

Expired == session # NoSession /\ now > session.timeout

\* C11: with a session whose timeout has passed, whatever its status, a run,
\* build or deploy request is rejected and touches nothing, a snapshot
\* operation is rejected at its head (it goes on to no backend call), and a
\* get-status leaves the record with status stopped.
C11_ExpiredTreatedAsStopped ==
  [][Expired
       => /\ RequestHead => (req'.response # "" /\ NothingTouched)
          /\ (op.pc = "idle" /\ op' # op /\ op'.kind = "snapshot")
               => (op'.pc = "idle" /\ op'.result # "ok")
          /\ (op.kind = "snapshot" /\ op.pc # "idle" /\ req' = req)
               => UNCHANGED <<activeSandbox, live, snapshots, session>>
          /\ (session' # session /\ op' = op /\ req' = req)
               => session'.status = "stopped"]_vars

----------------------------------------------------------------------------
(* Properties of the deploy pipeline *)

\* the step ends a deploy request in its upload or create call
CreateFails == req.kind = "deploy" /\ req.pc = "create" /\ req'.closed

\* what the deploy request leaves alone when its upload or create call fails
DeployLeftNothing ==
  /\ UNCHANGED <<store, idsSet, poll, snapshots, live, session>>
  /\ req'.events = Append(req.events, Ev("error", "exception"))

\* uploads are issued one per file and the create call after the last one
NoRetry ==
  /\ [](req.uploads <= NumFiles)
  /\ [][(req.pc = "create" /\ req' # req)
          => \/ req'.closed
             \/ req'.pc = "create" /\ req'.uploads = req.uploads + 1
             \/ req'.pc = "persist" /\ req.uploads = NumFiles]_vars

\* C12 as stated: when an upload or the create call of a deploy request
\* fails, no call is retried or issued afterwards, no record, poll loop or
\* snapshot results, the session is unchanged, and the closed stream carries
\* one error event.
C12_FailedCreateOneError ==
  /\ NoRetry
  /\ [][CreateFails
          => /\ DeployLeftNothing
             /\ Cardinality(Positions(req'.events, {"error"})) = 1]_vars

\* C12: when an upload or the create call of a deploy request fails, no
\* call is retried or issued afterwards, no record, poll loop or snapshot
\* results, the session is unchanged, and the closed stream ends with an
\* error event, the only one that is not a line of the bundler's standard
\* error.
C12_FailedCreateAborts ==
  /\ NoRetry
  /\ [][CreateFails
          => /\ DeployLeftNothing
             /\ Cardinality({i \in Positions(req'.events, {"error"}) :
                               req'.events[i].n = 0}) = 1]_vars

\* a deploy stream closed by a failed upload or create after a build whose
\* bundler wrote to standard error
C12_Witness ==
  /\ req.kind = "deploy" /\ req.closed
  /\ Positions(req.events, {"phase"}) # {}
  /\ Cardinality(Positions(req.events, {"phase"})) = 2
  /\ Positions(req.events, {"deploy_done"}) = {}
  /\ Cardinality(Positions(req.events, {"error"})) = 2
  /\ \A k \in StoreKeys : store[k] = NoRec

\* C13: a deploy request whose stream carries no build_done event has not
\* gone past its build phase: it has issued no upload or create call and
\* holds no deployment id; the step that closes such a stream adds no record,
\* starts no poll loop and takes no snapshot, and leaves an error event as
\* the last event; and no deploy stream carries a done event.
C13_FailedBuildStopsPipeline ==
  /\ [](req.kind = "deploy" =>
          /\ Positions(req.events, {"done"}) = {}
          /\ Positions(req.events, {"build_done"}) = {} =>
               /\ req.pc \notin {"d_cat", "create", "persist", "d_snap"}
               /\ req.uploads = 0 /\ req.depId = ""
               /\ Cardinality(Positions(req.events, {"phase"})) <= 1
               /\ Positions(req.events, {"deploy_done", "snapshot"}) = {})
  /\ [][(/\ req.kind = "deploy" /\ ~req.closed /\ req'.closed
         /\ Positions(req'.events, {"build_done"}) = {})
          => /\ UNCHANGED <<store, idsSet, poll, snapshots, live>>
             /\ req'.events[Len(req'.events)].type = "error"]_vars

\* a deploy stream closed after the bundler exited with a non-zero code: the
\* generator's error event and the route's
C13_Witness ==
  /\ req.kind = "deploy" /\ req.closed
  /\ Positions(req.events, {"build_done"}) = {}
  /\ \E i \in Positions(req.events, {"error"}) :
       /\ req.events[i].data = "Build failed with exit code 1"
       /\ i + 1 = Len(req.events)
       /\ req.events[i + 1].data = "Build failed"
  /\ \A k \in StoreKeys : store[k] = NoRec

\* positions of the events of a stream that equal Ev(type, data)
At(events, type, data) ==
  {i \in 1..Len(events) : events[i].type = type /\ events[i].data = data}

\* every position of `later` has a position of `earlier` before it
Precedes(earlier, later) == \A i \in later : \E j \in earlier : j < i

\* C14: on a deploy stream phase(build) is the first event; build_done comes
\* before phase(deploy), phase(deploy) before deploy_done and deploy_done
\* before snapshot; each of the five occurs at most once; the lines of the
\* bundler come before build_done; and a log event after build_done comes
\* after phase(deploy).
C14_DeployEventOrder ==
  req.kind = "deploy" =>
    LET E == req.events
        pb == At(E, "phase", "build")
        pd == At(E, "phase", "deploy")
        bd == Positions(E, {"build_done"})
        dd == Positions(E, {"deploy_done"})
        sn == Positions(E, {"snapshot"})
    IN /\ E # <<>> => 1 \in pb
       /\ \A S \in {pb, pd, bd, dd, sn} : Cardinality(S) <= 1
       /\ Precedes(bd, pd) /\ Precedes(pd, dd) /\ Precedes(dd, sn)
       /\ \A i \in 1..Len(E), j \in bd : E[i].n > 0 => i < j
       /\ \A i \in Positions(E, {"log"}), j \in bd :
            j < i => \E k \in pd : k < i

\* a closed deploy stream that carries all five events and a bundler line
C14_Witness ==
  /\ req.kind = "deploy" /\ req.closed
  /\ Positions(req.events, {"snapshot"}) # {}
  /\ Positions(req.events, {"deploy_done"}) # {}
  /\ \E i \in 1..Len(req.events) : req.events[i].n = 2

----------------------------------------------------------------------------
(* Properties of the build *)

InstallFailed(events) == At(events, "log", "Bun installation failed") # {}
InstallSucceeded(events) == At(events, "log", "Bun already installed") # {}

\* C15: a build stream gets its done event in the step that follows a
\* bundler exit with code 0, after a successful toolchain install, and in no
\* other step; that step always emits it; the done event is single, carries
\* /tmp/dist/index.js and is the last event; after a non-zero exit code the
\* last event is an error event and there is no done event.
C15_DoneIffBuildSucceeded ==
  /\ [](req.kind = "build" =>
          /\ \A i \in Positions(req.events, {"done"}) :
               /\ i = Len(req.events)
               /\ req.events[i].data = "/tmp/dist/index.js"
               /\ InstallSucceeded(req.events) /\ ~InstallFailed(req.events)
          /\ req.pc = "b_end" => InstallSucceeded(req.events))
  /\ [][(req.kind = "build" /\ ~req.closed /\ req.pc # "idle" /\ req' # req)
          => LET had == Positions(req.events, {"done"}) # {}
                 has == Positions(req'.events, {"done"}) # {}
             IN /\ (has /\ ~had) => (req.pc = "b_end" /\ req.exitCode = "0")
                /\ (req.pc = "b_end" /\ req.exitCode = "0") => (has /\ req'.closed)
                /\ (req.pc = "b_end" /\ req.exitCode # "0")
                     => /\ ~has /\ req'.closed
                        /\ req'.events[Len(req'.events)].type = "error"]_vars

\* a closed build stream without done whose last event reports the exit code
C15_Witness ==
  /\ req.kind = "build" /\ req.closed
  /\ Positions(req.events, {"done"}) = {}
  /\ InstallSucceeded(req.events)
  /\ req.events[Len(req.events)].data = "Build failed with exit code 1"

\* C16 as stated: a build stream that carries done carries it once, with a
\* non-empty path, and every event before it is of type log.
C16_OnlyLogsBeforeDone ==
  req.kind = "build" =>
    /\ Cardinality(Positions(req.events, {"done"})) <= 1
    /\ \A i \in Positions(req.events, {"done"}) :
         /\ req.events[i].data # ""
         /\ \A j \in 1..(i - 1) : req.events[j].type = "log"

\* C16: a build stream that carries done carries it once, with a non-empty
\* path, and every event before it is of type log or is an error event that
\* re-emits a standard-error line of the bundler.
C16_LogsAndBundlerErrorsBeforeDone ==
  req.kind = "build" =>
    /\ Cardinality(Positions(req.events, {"done"})) <= 1
    /\ \A i \in Positions(req.events, {"done"}) :
         /\ req.events[i].data # ""
         /\ \A j \in 1..(i - 1) :
              \/ req.events[j].type = "log"
              \/ req.events[j].type = "error" /\ req.events[j].n > 0

\* a build stream with done whose bundler wrote one line to standard output
\* and then one to standard error
C16_Witness ==
  /\ req.kind = "build"
  /\ Positions(req.events, {"done"}) # {}
  /\ \E i, j \in 1..Len(req.events) :
       /\ req.events[i].n = 1 /\ req.events[i].type = "log"
       /\ req.events[j].n = 2 /\ req.events[j].type = "error"

----------------------------------------------------------------------------
(* C17 *)

\* what get and list return under one partition key
PartitionView(userId) ==
  [get  |-> [id \in RequestIds |-> getDeployment(userId, id)],
   list |-> getAllDeployments(userId)]

\* C17: every store operation is issued under one partition key, and it
\* changes what get and list return under no other partition key: a
\* Deployment added under A never appears under B, and an update, delete or
\* clear under B never changes or removes a Deployment of A.
C17_PartitionIsolation ==
  [][\E B \in Callers :
       \A A \in Callers \ {B} : PartitionView(A)' = PartitionView(A)]_vars

----------------------------------------------------------------------------
(* C18 *)

\* the step of a deploy request that emits deploy_done
EmitsDeployDone ==
  /\ req.kind = "deploy"
  /\ ~ \E n \in DOMAIN req.events : req.events[n].type = "deploy_done"
  /\ \E n \in DOMAIN req'.events : req'.events[n].type = "deploy_done"

\* C18: when a deploy request emits deploy_done, the record fetched from the
\* store by the id of the creation response under the request's partition
\* key has that id, the url of the creation response and the function name
\* of the request.
C18_PersistedRecordRoundTrip ==
  [][EmitsDeployDone
       => LET fetched == store'[deploymentKey(req.userId, req.depId)]
          IN /\ fetched # NoRec
             /\ fetched.id = req.depId
             /\ fetched.url = req.resp.url
             /\ fetched.functionName = req.functionName]_vars

\* deploy_done has been emitted for a function name that is not the default
\* and a response with the second url
C18_Witness ==
  /\ req.kind = "deploy"
  /\ \E n \in DOMAIN req.events : req.events[n].type = "deploy_done"
  /\ getDeployment("ipA", "dpl_1").functionName = "hello"
  /\ getDeployment("ipA", "dpl_1").url = "https://b.vercel.app"

----------------------------------------------------------------------------
(* C19 *)

NonEmptyRegions(g) == g \notin {"undefined", "empty"}

\* C19: the write of a poll iteration leaves a non-empty stored regions list
\* non-empty, and when the status response has no regions or an empty list
\* the stored regions are the same after the write as before.
C19_RegionsNotErased ==
  [][\A i \in DeployIds :
       LET k == deploymentKey(poll[i].userId, i)
       IN (poll[i].pc = "set" /\ store'[k] # store[k] /\ store[k] # NoRec)
            => /\ NonEmptyRegions(store[k].regions)
                    => NonEmptyRegions(store'[k].regions)
               /\ ~NonEmptyRegions(poll[i].resp.regions)
                    => store'[k].regions = store[k].regions]_vars

\* a poll iteration has written the record after a response with an empty
\* regions list, the record holding a non-empty one
C19_Witness ==
  /\ poll["dpl_1"].pc \in {"loop", "done"}
  /\ poll["dpl_1"].last = "ok"
  /\ poll["dpl_1"].resp.regions = "empty"
  /\ poll["dpl_1"].resp.readyState = "READY"
  /\ getDeployment("ipA", "dpl_1").status = "ready"
  /\ getDeployment("ipA", "dpl_1").regions = "iad1"

----------------------------------------------------------------------------
(* C20 *)

\* the step of a deploy request in which createSnapshot throws
SnapshotFails ==
  /\ req.kind = "deploy" /\ req.pc = "d_snap"
  /\ req' # req
  /\ snapshots' = snapshots

\* C20: when the snapshot after deploy_done fails, the record of the
\* deployment is in the store and is left as it is, the poll loops are left
\* as they are, the events emitted are neither an error nor a snapshot event,
\* the session keeps its status and its snapshotId, and the stream is closed.
C20_SnapshotFailureKeepsDeployment ==
  [][SnapshotFails
       => /\ getDeployment(req.userId, req.depId) # NoRec
          /\ UNCHANGED <<store, idsSet, poll>>
          /\ Len(req'.events) > Len(req.events)
          /\ \A n \in DOMAIN req'.events :
                n > Len(req.events)
                  => req'.events[n].type \notin {"error", "snapshot"}
          /\ req'.closed
          /\ session'.status = session.status
          /\ session'.snapshotId = session.snapshotId]_vars

\* a deploy stream that ended with the warning: the record is stored, its
\* poll loop is running, the session is running without a snapshotId
C20_Witness ==
  /\ req.kind = "deploy" /\ req.closed
  /\ Len(req.events) > 0
  /\ req.events[Len(req.events)].data
       = "Warning: Failed to create snapshot after deployment"
  /\ getDeployment("ipA", "dpl_1") # NoRec
  /\ poll["dpl_1"].pc = "loop"
  /\ session.status = "running"
  /\ session.snapshotId = 0

----------------------------------------------------------------------------
(* C21 *)

MsgNoSnapshot == "No snapshot available to restore"

\* C21: a restore request without a snapshotId in its body, the session store
\* being empty or holding a session without snapshotId, is answered at once
\* with the no-snapshot error: no step of createSandbox follows, and the
\* session, the stored handle and the backend's sandboxes are unchanged.
C21_RestoreWithoutSnapshotFails ==
  [][(RestoreBegin(0) /\ getSession.snapshotId = 0)
       => /\ op'.kind = "restore" /\ op'.pc = "idle"
          /\ op'.result = MsgNoSnapshot
          /\ UNCHANGED <<session, activeSandbox, live, created, snapshots>>]_vars

\* the no-snapshot answer given while a running session without snapshotId
\* and its live sandbox exist
C21_Witness ==
  /\ op.kind = "restore" /\ op.result = MsgNoSnapshot
  /\ session.status = "running" /\ session.snapshotId = 0
  /\ session.sandboxId \in live

----------------------------------------------------------------------------
(* C22 *)

\* C22: a start operation on a session with a sandboxId first calls
\* stopSandbox for that id; while that call runs no sandbox is created, and
\* however it ends the operation goes on to createSandbox; a start that
\* succeeds stores the session of the new sandbox: running, timeout
\* DefaultTimeout ahead, no snapshotId.
C22_StartStopsPriorThenCreates ==
  [][/\ (op.pc = "idle" /\ op'.kind = "start" /\ op'.pc # "idle"
          /\ getSession.sandboxId # 0)
         => (op'.pc = "s_get" /\ op'.sandboxId = getSession.sandboxId)
     /\ (op.kind = "start" /\ op.pc \in {"s_get", "s_stop"} /\ op' # op)
         => /\ op'.kind = "start"
            /\ op'.pc \in {"s_stop", "c_stop"}
            /\ UNCHANGED <<created, session>>
     /\ (op.kind = "start" /\ op.pc = "c_create" /\ op'.result = "ok")
         => /\ created' = created + 1
            /\ session' = [sandboxId |-> created', status |-> "running",
                            timeout |-> now + DefaultTimeout, snapshotId |-> 0,
                            origin |-> "start"]]_vars

\* a start has succeeded over a prior session whose sandbox the stop did
\* not stop
C22_Witness ==
  /\ op.kind = "start" /\ op.result = "ok"
  /\ session.sandboxId = 2 /\ session.status = "running"
  /\ 1 \in live

----------------------------------------------------------------------------
(* C23 *)

\* C23: the step that answers a snapshot operation either answers ok, and
\* then the stored handle is empty and the session is paused with the id of
\* the snapshot the backend has just taken, or answers an error, and then
\* the session's status and snapshotId are as before.
C23_SnapshotPausesOrKeeps ==
  [][(op.kind = "snapshot" /\ op.pc \in {"p_get", "p_snap"} /\ op'.pc = "idle")
       => \/ /\ op'.result = "ok"
             /\ activeSandbox' = 0
             /\ session'.status = "paused"
             /\ session'.snapshotId \in snapshots' \ snapshots
          \/ /\ op'.result = "error"
             /\ UNCHANGED snapshots
             /\ session'.status = session.status
             /\ session'.snapshotId = session.snapshotId]_vars

\* a snapshot operation has succeeded on a session restored from an earlier
\* snapshot: the session holds the new snapshot's id
C23_Witness ==
  /\ op.kind = "snapshot" /\ op.result = "ok"
  /\ session.status = "paused" /\ session.snapshotId = 2
  /\ session.origin = "restore"
  /\ activeSandbox = 0

----------------------------------------------------------------------------
(* C24 *)

\* C24: the step that answers a stop operation (POST /api/stop or DELETE
\* /api/session) begun on a session with a sandboxId leaves the session
\* store empty, whatever the reconnect and the stop call did.
C24_StopEmptiesSession ==
  [][(op.kind \in {"stop", "delete"} /\ op.pc \in {"x_get", "x_stop"}
        /\ op'.pc = "idle")
       => session' = NoSession]_vars

----------------------------------------------------------------------------
(* C25 *)

\* C25: a call of stopSandbox for a sandbox the backend does not run ends
\* with the stored handle empty, and without a throw: POST /api/stop, which
\* answers an error exactly when the call throws, answers ok.
C25_StopOfUnknownSandboxSwallowed ==
  [][(op.sandboxId \notin live)
       => /\ (op.pc \in {"s_get", "s_stop", "x_get", "x_stop"}
               /\ op'.pc \in {"c_stop", "idle"})
              => activeSandbox' = 0
          /\ (op.kind = "stop" /\ op.pc \in {"x_get", "x_stop"}
               /\ op'.pc = "idle")
              => op'.result = "ok"]_vars

----------------------------------------------------------------------------
(* C26 *)

\* the calls of installBun and of ensureSdk on record
ToolchainCalls == {toolchain.installBun, toolchain.ensureSdk}

\* the calls of `calls` that ran install work
Worked(calls) == {n \in DOMAIN calls : calls[n].worked}

----------------------------------------------------------------------------
(* C27 *)

\* C27: a delete request for an id whose record is absent under the
\* caller's key is answered 404 at once, before any remote call; one whose
\* record is present goes on to the remote delete, whatever that call
\* answers the request goes on to the local delete, and the local delete
\* removes the record and the id and answers 200.
C27_DeleteRemovesLocalRecord ==
  [][/\ \A u \in Callers, i \in RequestIds :
          DeleteLookup(u, i)
            => IF getDeployment(u, i) = NoRec
                 THEN del'.pc = "idle" /\ del'.result = "404" /\ del'.remote = ""
                 ELSE del'.pc = "remote"
     /\ (del.pc = "remote" /\ del' # del) => del'.pc = "local"
     /\ (del.pc = "local" /\ del' # del)
          => /\ store'[deploymentKey(del.userId, del.id)] = NoRec
             /\ del.id \notin idsSet'[deploymentIdsKey(del.userId)]
             /\ del'.pc = "idle" /\ del'.result = "200"]_vars

\* a delete answered 200 after the remote call failed with an error that is
\* not a 404: the record is gone
C27_Witness ==
  /\ del.pc = "idle" /\ del.result = "200" /\ del.remote = "error"
  /\ getDeployment("ipA", "dpl_1") = NoRec
  /\ "dpl_1" \notin idsSet[deploymentIdsKey("ipA")]

----------------------------------------------------------------------------
(* C28 *)

\* the event that ends a stream of this kind when the request succeeded
SuccessEvent(kind) == IF kind = "deploy" THEN "deploy_done" ELSE "done"

\* C28: a rejected request has an error response and no stream; a closed
\* stream carries at most one error event, and exactly one when it lacks
\* the event that marks its success.
C28_OneErrorPerFailure ==
  /\ req.response # "" => req.events = <<>>
  /\ req.closed
       => /\ Cardinality(Positions(req.events, {"error"})) <= 1
          /\ Positions(req.events, {SuccessEvent(req.kind)}) = {}
               => Cardinality(Positions(req.events, {"error"})) = 1

----------------------------------------------------------------------------
(* C29 *)

\* a deploy request that has generated its build output
HasConfig == req.kind = "deploy" /\ req.config # NoConfig

\* C29: the config manifest of a deploy request with a non-empty cron
\* expression has a crons array of exactly one entry, with that expression
\* as schedule and the src of the single route, /api/<functionName>, as
\* path; with no cron expression the manifest has no crons key.
C29_CronManifest ==
  HasConfig
    => /\ Len(req.config.routes) = 1
       /\ req.config.routes[1].src = RoutePath(req.functionName)
       /\ IF req.cronSchedule \notin {"undefined", ""}
            THEN /\ "crons" \in DOMAIN req.config
                 /\ Len(req.config.crons) = 1
                 /\ req.config.crons[1].schedule = req.cronSchedule
                 /\ req.config.crons[1].path = req.config.routes[1].src
            ELSE "crons" \notin DOMAIN req.config

\* the manifest of a deploy of the function hello with the schedule of the
\* scenario
C29_Witness ==
  /\ HasConfig
  /\ req.functionName = "hello"
  /\ req.cronSchedule = "0 9 * * *"
  /\ "crons" \in DOMAIN req.config

----------------------------------------------------------------------------
(* C30 *)

\* C30: a step that is one call of getOrReconnectSandbox(id) (the first
\* step of a run or build stream, of the stop of a start, of a snapshot and
\* of a stop operation) behaves as follows. When the stored handle is id,
\* the call returns and the handle is kept: no backend call is made, so
\* nothing can throw. Otherwise, when the call returns the stored handle is
\* id, and when it throws the stored handle is what it was.
C30_ReconnectKeepsOrAttaches ==
  [][/\ (req.pc \in {"r_get", "b_get"} /\ req' # req)
          => IF activeSandbox = req.sandboxId
               THEN ~req'.closed /\ activeSandbox' = activeSandbox
               ELSE IF req'.closed THEN activeSandbox' = activeSandbox
                                   ELSE activeSandbox' = req.sandboxId
     /\ (op.pc \in {"s_get", "p_get", "x_get"} /\ op' # op)
          => LET returned == op'.pc \in {"s_stop", "p_snap", "x_stop"}
             IN IF activeSandbox = op.sandboxId
                  THEN returned /\ activeSandbox' = activeSandbox
                  ELSE IF returned THEN activeSandbox' = op.sandboxId
                                   ELSE activeSandbox' = activeSandbox]_vars

\* a run request holds the handle of the session's sandbox after a start
\* that failed had emptied the stored handle
C30_Witness ==
  /\ req.kind = "run" /\ req.pc = "r_bun"
  /\ activeSandbox = req.sandboxId
  /\ op.kind = "start" /\ op.result = "error"
  /\ created = 1

----------------------------------------------------------------------------
(* Lifecycle operations one at a time, every backend call of a running     *)
(* sandbox succeeding, the module state of sandbox.ts lost between requests *)

\* the module of sandbox.ts is evaluated anew between two requests (a hot
\* reload, another instance): `activeSandbox` and `sdkInstalledSandboxes`
\* start over, the session kept on globalThis survives
LoseHandle ==
  /\ op.pc = "idle"
  /\ activeSandbox # 0
  /\ activeSandbox' = 0
  /\ sdkInstalledSandboxes' = {}
  /\ UNCHANGED <<now, session, live, created, snapshots, op, toolchain, parked>>
  /\ UNCHANGED <<store, idsSet, poll, del, req, env, termOf>>

InitHandleLoss ==
  /\ InitStore
  /\ InitSession
  /\ env = [responses |-> CreateResponses, regions |-> {"undefined"},
            deployers |-> {}, deployIds |-> {}, deleteIds |-> {},
            faults |-> FALSE, observed |-> FALSE, sandboxes |-> MaxSandboxes + 1,
            functionNames |-> {"handler"},
            cronSchedules |-> {"undefined"}]

NextHandleLoss ==
  \/ LifecycleStep
  \/ LoseHandle

SpecHandleLoss == InitHandleLoss /\ [][NextHandleLoss]_vars

----------------------------------------------------------------------------
(* Two start operations in flight at once: each await of the one is a point *)
(* where the other may take its steps                                       *)

\* the event loop resumes the other operation: the one that was taking
\* steps waits at its await, or has answered
Switch ==
  /\ op' = parked
  /\ parked' = op
  /\ op' # op
  /\ UNCHANGED <<now, session, activeSandbox, live, created, snapshots,
                 sdkInstalledSandboxes, toolchain>>
  /\ UNCHANGED <<store, idsSet, poll, del, req, env, termOf>>

\* POST /api/session, step by step
StartOp ==
  (StartBegin \/ StartStopGet \/ StartStopOld \/ CreateStopActive \/ CreateNew)
    /\ UNCHANGED <<store, idsSet, poll, del, req, env, termOf>>

InitOverlap ==
  /\ InitStore
  /\ InitSession
  /\ env = [responses |-> CreateResponses, regions |-> {"undefined"},
            deployers |-> {}, deployIds |-> {}, deleteIds |-> {},
            faults |-> FALSE, observed |-> FALSE, sandboxes |-> MaxSandboxes + 1,
            functionNames |-> {"handler"},
            cronSchedules |-> {"undefined"}]

NextOverlap ==
  \/ StartOp
  \/ Switch

SpecOverlap == InitOverlap /\ [][NextOverlap]_vars

----------------------------------------------------------------------------
(* C31 *)

\* C31: the first step of createSandbox stops at most the sandbox of the
\* stored handle, creates nothing, empties the stored handle and, whether
\* the stop threw or not, goes on to the create call; the create call
\* either returns, and then the stored handle is the sandbox just created,
\* or throws, and then the operation answers an error and the stored handle
\* is left as it was, not set back to the sandbox it held before.
C31_CreateStopsThenReplaces ==
  [][/\ (op.pc = "c_stop" /\ op' # op)
          => /\ op'.pc = "c_create" /\ op'.kind = op.kind
             /\ activeSandbox' = 0
             /\ created' = created
             /\ live' \subseteq live /\ (live \ live') \subseteq {activeSandbox}
     /\ (op.pc = "c_create" /\ op' # op)
          => \/ /\ op'.result = "ok"
                /\ created' = created + 1
                /\ activeSandbox' = created' /\ activeSandbox' \in live'
             \/ /\ op'.result = "error"
                /\ UNCHANGED <<created, live, activeSandbox>>]_vars

\* a create call has thrown after the stop of the stored handle threw: the
\* session's sandbox is still running and the stored handle is empty
C31_Witness ==
  /\ op.kind = "start" /\ op.result = "error"
  /\ activeSandbox = 0
  /\ session.sandboxId = 1 /\ session.status = "running"
  /\ 1 \in live

----------------------------------------------------------------------------
(* C32 *)

\* C32: the record the deploy request persists carries the status of the
\* backend's creation response, READY as ready, ERROR as error, CANCELED
\* as canceled, and the step that persists it starts the poll loop of the
\* deployment exactly when that status is not terminal.
C32_InitialStatusReflectsBackend ==
  [][(req.kind = "deploy" /\ req.pc = "persist" /\ req'.pc = "d_snap")
       => LET rec == store'[deploymentKey(req.userId, req.depId)]
          IN /\ rec.status = PollStatus(req.resp.readyState)
             /\ (poll'[req.depId].pc = "loop") <=> ~IsTerminal(rec.status)]_vars

----------------------------------------------------------------------------
(* C33 *)

\* C33: once the delete of dpl_1 under ipA has answered 200, every step
\* other than the persist step of a new deploy leaves get-by-id under ipA
\* answering not found and the id out of the list of ipA, the steps of a
\* poll loop of dpl_1 that had read the record before the delete included.
C33_DeletedStaysDeleted ==
  [][(del.result = "200" /\ ~(req.pc = "persist" /\ req'.pc = "d_snap"))
       => /\ store'[deploymentKey("ipA", "dpl_1")] = NoRec
          /\ "dpl_1" \notin idsSet'[deploymentIdsKey("ipA")]]_vars

----------------------------------------------------------------------------
(* C34 *)

\* C34: a step of a run, build or deploy request taken when the session in
\* the store is no longer the session of the sandbox the request validated
\* (a start, restore or stop has completed meanwhile) leaves the session
\* as it is: no timeout extension, no paused status, no snapshotId.
C34_FinishUpdatesOwnSession ==
  [][(req.kind # "none" /\ req' # req /\ session.sandboxId # req.sandboxId)
       => session' = session]_vars

----------------------------------------------------------------------------
(* C35 *)

\* C35: when the create call of a start or a restore throws, the operation
\* answers an error and the session it leaves in the store is not a
\* running session of a sandbox that this operation's own stop calls
\* have stopped.
C35_FailedCreateLeavesNoStoppedSession ==
  [][(op.pc = "c_create" /\ op' # op /\ op'.result # "ok")
       => /\ op'.result = "error"
          /\ ~(session'.status = "running" /\ session'.sandboxId \in op.stopped)]_vars

----------------------------------------------------------------------------
(* C36 *)

\* C36: whenever no lifecycle operation is in flight, at most one sandbox
\* is live in the backend, and a live sandbox is the sandbox of the stored
\* session.
C36_OneLiveSandbox ==
  op.pc = "idle"
    => /\ Cardinality(live) <= 1
       /\ \A id \in live : session.sandboxId = id

----------------------------------------------------------------------------
(* C37 *)

\* C37: when two start operations, overlapping or not, have both answered
\* with success and neither is in flight, the sandbox of the stored session
\* is the sandbox of the stored handle and no other sandbox is live.
C37_OverlappingStartsLeaveOne ==
  (/\ op.pc = "idle" /\ op.kind = "start" /\ op.result = "ok"
   /\ parked.pc = "idle" /\ parked.kind = "start" /\ parked.result = "ok")
    => /\ session.sandboxId = activeSandbox
       /\ live \subseteq {session.sandboxId}

----------------------------------------------------------------------------
(* C38 *)

\* C38: once the timeout of the stored session has passed, no step of a
\* run, build or deploy request moves it back into the future: the session
\* is expired after the step as it was before, so that the validation of
\* the next request still rejects it.
C38_ExpiredStaysExpired ==
  [][(session.sandboxId # 0 /\ now > session.timeout /\ req' # req)
       => /\ now' > session'.timeout
          /\ validateActiveSession' # "valid"]_vars

----------------------------------------------------------------------------
(* C39 *)

\* a closed stream that does not report overall success: it carries an
\* error event, or the lines of a run whose toolchain install failed, or it
\* is the stream of a build and carries no done event
EndsInFailure(r) ==
  \/ Positions(r.events, {"error"}) # {}
  \/ \E i \in DOMAIN r.events :
       r.events[i] = Ev("stderr", "Failed to install Bun runtime")
  \/ r.kind = "build" /\ Positions(r.events, {"done"}) = {}

\* C39: the step that closes the stream of a run, build or deploy that does
\* not report overall success leaves the timeout of the session unchanged.
C39_ExtendedOnlyOnSuccess ==
  [][(req.kind # "none" /\ ~req.closed /\ req'.closed /\ EndsInFailure(req'))
       => session'.timeout = session.timeout]_vars

====
